---- MODULE Spec2Model ----
(***************************************************************************)
(* A model of shufflequiz.py: option checking, the line scanner of a quiz  *)
(* file (a four-state machine), the postprocessing of the scanned quizes   *)
(* and the export step.                                                    *)
(*                                                                         *)
(* Text is a sequence of one-character tokens; the three marker keywords   *)
(* are single tokens.  Answer and list objects live in two heaps, because  *)
(* the program shares them by reference (Question.clone).                  *)
(***************************************************************************)
EXTENDS Integers, Sequences, FiniteSets, TLC

VARIABLES
    pc,         \* where main() is: "options", "process", "scan", "postprocess", "export", "done", "exit"
    options,    \* the argparse namespace
    stderr,     \* the error message printed, or NoError
    exitcode,   \* the process's exit status, -1 while it runs
    quizes,     \* QuizSet.quizes
    filenr,     \* index in options.files of the file QuizSet.run is at
    quiz,       \* the Quiz being scanned
    state,      \* _scan_quiz_file: state
    nlin,       \* _scan_quiz_file: nlin
    fpos,       \* number of lines the file iterator has delivered
    lin,        \* _scan_quiz_file: lin, the line last read
    question,   \* _scan_quiz_file: question, the question in progress
    heap,       \* the Answer objects, by identity
    lists,      \* the list objects holding answers, by identity
    log,        \* the postprocessing operations performed, in order
    written,    \* the output files written
    output,     \* the contents of the output files
    xquestion,  \* quiz2moodlexml.py: a Question object
    xml,        \* quiz2moodlexml.py: the questions rendered, each the weights of its answers
    xquestions, \* quiz2moodlexml.py: Quiz.questions, each with the identity of its list
    xlists      \* quiz2moodlexml.py: the lists of answers, by identity

vars == <<pc, options, stderr, exitcode, quizes, filenr, quiz, state, nlin,
          fpos, lin, question, heap, lists, log, written, output, xquestion,
          xml, xquestions, xlists>>

scanvars == <<state, question, quiz, heap, lists>>

xmlvars == <<xquestion, xml, xquestions, xlists>>

-----------------------------------------------------------------------------
(* Bounds of the model *)

\* longest input file, in lines
MaxLines == 9
\* largest value of --maxAnswersPerQuestion tried
MaxMaxAnswers == 2
\* most answers of a question of quiz2moodlexml.py
MaxXmlAnswers == 11
\* most answers marked final of a question of quiz2moodlexml.py
MaxXmlFinals == 1
\* most answers of a question of the files quiz2moodlexml.py scans
MaxXmlScanAnswers == 2
\* most questions of a file quiz2moodlexml.py scans, the last one apart
MaxXmlQuestions == 2
\* longest text after the colon of an answer mark
MaxTail == 2
\* longest input file, in lines, of the runs that shuffle
MaxLongLines == 10
\* longest input file, in lines, of the runs whose output is read
MaxExportLines == 12

-----------------------------------------------------------------------------
(* Text *)

_QUESTION_MARK == "pregunta"
_DESCRIPTION_MARK == "enunciat"
_ANSWER_MARK == "resposta"

Whitespace == {" ", "\n"}

RECURSIVE lstrip(_)
lstrip(s) ==
    IF s # <<>> /\ Head(s) \in Whitespace THEN lstrip(Tail(s)) ELSE s

RECURSIVE rstrip(_)
rstrip(s) ==
    IF s # <<>> /\ s[Len(s)] \in Whitespace
    THEN rstrip(SubSeq(s, 1, Len(s) - 1))
    ELSE s

strip(s) == lstrip(rstrip(s))

startswith(s, prefix) ==
    Len(s) >= Len(prefix) /\ SubSeq(s, 1, Len(prefix)) = prefix

endswith(s, c) == s # <<>> /\ s[Len(s)] = c

\* ".. " followed by the comment character
CommentPrefix(c) == <<".", ".", " ", c>>
\* ".. <mark>:"
MarkPrefix(mark) == <<".", ".", " ", mark, ":">>

\* a faulty is_a_comment: only ".. #" starts a comment
is_a_comment_with_hash(l) == startswith(l, CommentPrefix("#"))

is_a_comment(l) ==
    startswith(l, CommentPrefix("#")) \/ startswith(l, CommentPrefix("/"))

is_a_question(l) == startswith(l, MarkPrefix(_QUESTION_MARK))

is_a_description(l) == startswith(l, MarkPrefix(_DESCRIPTION_MARK))

is_an_answer(l) == startswith(l, MarkPrefix(_ANSWER_MARK))

is_a_mark(l) == is_a_question(l) \/ is_a_description(l) \/ is_an_answer(l)

\* None, or the pair (correct, final)
NoHeader == [ok |-> FALSE, correct |-> FALSE, final |-> FALSE]

\* a faulty decoding: the final flag is never recognised
process_answer_mark_without_final(l) ==
    IF ~is_an_answer(l) THEN NoHeader
    ELSE LET line == rstrip(l)
             value == IF Len(line) >= 1 THEN <<line[Len(line)]>> ELSE <<>>
         IN  IF value \in {<<"+">>, <<"-">>}
             THEN [ok |-> TRUE, correct |-> (value = <<"+">>), final |-> FALSE]
             ELSE NoHeader

process_answer_mark(l) ==
    IF ~is_an_answer(l) THEN NoHeader
    ELSE LET line == rstrip(l)
             final == endswith(line, "f")
             \* line[-2:-1] or line[-1:]: a slice, empty when out of range
             value == IF final
                      THEN IF Len(line) >= 2 THEN <<line[Len(line) - 1]>> ELSE <<>>
                      ELSE IF Len(line) >= 1 THEN <<line[Len(line)]>> ELSE <<>>
         IN  IF value \in {<<"+">>, <<"-">>}
             THEN [ok |-> TRUE, correct |-> (value = <<"+">>), final |-> final]
             ELSE NoHeader

-----------------------------------------------------------------------------
(* The lines input files are written with *)

CommentLines ==
    { CommentPrefix("#") \o <<" ", "a", "\n">>,
      CommentPrefix("/") \o <<"/", "\n">> }

QuestionLine == MarkPrefix(_QUESTION_MARK) \o <<"\n">>

DescriptionLine == MarkPrefix(_DESCRIPTION_MARK) \o <<"\n">>

AnswerTails ==
    { <<" ", "+", "\n">>, <<" ", "-", "\n">>, <<" ", "-", "f", "\n">>,
      <<" ", "x", "\n">>, <<"\n">> }

AnswerLines == { MarkPrefix(_ANSWER_MARK) \o t : t \in AnswerTails }

ContentLines == { <<"a", "\n">>, <<" ", "\n">> }

Lines ==
    CommentLines \cup {QuestionLine, DescriptionLine} \cup AnswerLines
        \cup ContentLines

-----------------------------------------------------------------------------
(* Data model *)

NoError == [kind |-> "none", file |-> "", line |-> 0, msg |-> ""]

\* Answer.__init__
Answer(is_correct, is_final) ==
    [is_correct |-> is_correct, is_final |-> is_final, text |-> <<>>,
     weight |-> <<0, 1>>]

\* current_answer = None
None == 0

\* a faulty reset: the lists are kept, not replaced by new ones
reset_keeping_lists(q, ls) ==
    IF q.answers = None
    THEN [title |-> <<>>, descr |-> <<>>, answers |-> Len(ls) + 1,
          final_answers |-> Len(ls) + 2, current_answer |-> None]
    ELSE [title |-> <<>>, descr |-> <<>>, answers |-> q.answers,
          final_answers |-> q.final_answers, current_answer |-> None]

\* Question.reset on question q: fresh empty lists, allocated at the end of
\* the list heap ls
reset(q, ls) ==
    [title |-> <<>>, descr |-> <<>>, answers |-> Len(ls) + 1,
     final_answers |-> Len(ls) + 2, current_answer |-> None]

\* the list heap after a reset
resetLists(ls) == ls \o << <<>>, <<>> >>

\* a faulty clone: the description is not copied
clone_without_description(q) ==
    [title |-> q.title, descr |-> <<>>, answers |-> q.answers,
     final_answers |-> q.final_answers, current_answer |-> None]

\* Question.clone
clone(q) ==
    [title |-> q.title, descr |-> q.descr, answers |-> q.answers,
     final_answers |-> q.final_answers, current_answer |-> None]

\* a faulty appendToTitle: the line is appended as it is
appendToTitle_untrimmed(q, title) ==
    IF strip(title) # <<>>
    THEN [q EXCEPT !.title = @ \o <<" ">> \o title]
    ELSE q

appendToTitle(q, title) ==
    LET cleantitle == strip(title)
    IN  IF cleantitle # <<>>
        THEN [q EXCEPT !.title = @ \o <<" ">> \o cleantitle]
        ELSE q

add_description(q, descr) == [q EXCEPT !.descr = @ \o descr]

get_nr_answers(q) == Len(lists[q.answers]) + Len(lists[q.final_answers])

has_proper_title(q) == q.title # <<>>

has_proper_description(q) == q.descr # <<>>

\* Answer.is_complete
answer_is_complete(a) == a.text # <<>>

\* the answers of question q, regular then final, as Answer values
AnswerIds(q) == lists[q.answers] \o lists[q.final_answers]

AnswersOf(q) == [i \in 1..Len(AnswerIds(q)) |-> heap[AnswerIds(q)[i]]]

-----------------------------------------------------------------------------
(* Predicates of Question that read the heaps *)

\* Question.has_finished_current_answer: "True", "False", or the exception
\* raised when current_answer is None
has_finished_current_answer(q) ==
    IF q.current_answer = None THEN "AttributeError"
    ELSE IF answer_is_complete(heap[q.current_answer]) THEN "True"
    ELSE "False"

\* a faulty is_complete: the description is not looked at
is_complete_without_description(q) ==
    IF ~has_proper_title(q) THEN "False"
    ELSE has_finished_current_answer(q)

\* a faulty is_complete: the current answer is not looked at
is_complete_without_answer(q) ==
    IF has_proper_title(q) /\ has_proper_description(q) THEN "True"
    ELSE "False"

\* a faulty is_complete: a question with no field set is complete
is_complete_when_empty(q) ==
    IF ~has_proper_title(q) /\ ~has_proper_description(q) THEN "True"
    ELSE IF ~has_proper_title(q) THEN "False"
    ELSE IF ~has_proper_description(q) THEN "False"
    ELSE has_finished_current_answer(q)

\* Question.is_complete: a short-circuit conjunction
is_complete(q) ==
    IF ~has_proper_title(q) THEN "False"
    ELSE IF ~has_proper_description(q) THEN "False"
    ELSE has_finished_current_answer(q)

\* a faulty limit test: off by one
limit_reached_off_by_one(q) == get_nr_answers(q) > options.maxanswers

\* _scan_answer: the answer limit test
limit_reached(q) == get_nr_answers(q) >= options.maxanswers

-----------------------------------------------------------------------------
(* The scanner's decisions.  Each handler maps the line and the question   *)
(* in progress to an outcome: a step to perform, or the message of the     *)
(* error it exits with.                                                    *)

\* a faulty _scan_question: every line but a question mark is skipped
_scan_question_lenient(l, q) ==
    IF is_a_question(l) THEN "title" ELSE "stay"

_scan_question(l, q) ==
    IF is_a_question(l) THEN "title"
    ELSE IF is_a_description(l) \/ is_an_answer(l)
    THEN "expected question but another mark found"
    ELSE "stay"

\* a faulty _scan_title: the description mark is taken without a title
_scan_title_unchecked(l, q) ==
    IF is_a_question(l) THEN "unexpected start of question"
    ELSE IF is_a_description(l) THEN "description"
    ELSE IF is_an_answer(l) THEN "unexpected start of answer"
    ELSE IF ~is_a_comment(l) THEN "append_title"
    ELSE "stay"

_scan_title(l, q) ==
    IF is_a_question(l) THEN "unexpected start of question"
    ELSE IF is_a_description(l)
    THEN IF has_proper_title(q) THEN "description"
         ELSE "question title unset"
    ELSE IF is_an_answer(l) THEN "unexpected start of answer"
    ELSE IF ~is_a_comment(l) THEN "append_title"
    ELSE "stay"

\* a faulty _scan_description: the marks are taken without a description
_scan_description_unchecked(l, q) ==
    IF is_an_answer(l) THEN "answer"
    ELSE IF is_a_question(l) THEN "commit"
    ELSE IF is_a_description(l) THEN "too many description marks"
    ELSE IF ~is_a_comment(l) THEN "append_descr"
    ELSE "stay"

_scan_description(l, q) ==
    IF is_an_answer(l)
    THEN IF has_proper_description(q) THEN "answer"
         ELSE "question description unset"
    ELSE IF is_a_question(l)
    THEN IF has_proper_description(q) THEN "commit"
         ELSE "question description unset"
    ELSE IF is_a_description(l) THEN "too many description marks"
    ELSE IF ~is_a_comment(l) THEN "append_descr"
    ELSE "stay"

\* a faulty _scan_answer: a question mark resets the question in progress
\* without appending it
_scan_answer_dropping(l, q) ==
    IF is_a_question(l)
    THEN CASE has_finished_current_answer(q) = "True" -> "title"
           [] has_finished_current_answer(q) = "False" -> "unfinished answer"
           [] OTHER -> "AttributeError"
    ELSE IF is_an_answer(l)
    THEN IF limit_reached(q) THEN "exceded max nr of answers per question"
         ELSE CASE has_finished_current_answer(q) = "True" -> "answer"
                [] has_finished_current_answer(q) = "False" -> "unfinished answer"
                [] OTHER -> "AttributeError"
    ELSE IF is_a_description(l) THEN "unexpected description mark"
    ELSE IF ~is_a_comment(l)
    THEN IF q.current_answer = None THEN "AttributeError" ELSE "append_answer"
    ELSE "stay"

\* a faulty _scan_answer: the current answer is tested before the limit
_scan_answer_unfinished_first(l, q) ==
    IF is_a_question(l)
    THEN IF has_finished_current_answer(q) = "True" THEN "commit"
         ELSE "unfinished answer"
    ELSE IF is_an_answer(l)
    THEN IF has_finished_current_answer(q) # "True" THEN "unfinished answer"
         ELSE IF limit_reached(q)
         THEN "exceded max nr of answers per question"
         ELSE "answer"
    ELSE IF is_a_description(l) THEN "unexpected description mark"
    ELSE IF ~is_a_comment(l) THEN "append_answer"
    ELSE "stay"

_scan_answer(l, q) ==
    IF is_a_question(l)
    THEN CASE has_finished_current_answer(q) = "True" -> "commit"
           [] has_finished_current_answer(q) = "False" -> "unfinished answer"
           [] OTHER -> "AttributeError"
    ELSE IF is_an_answer(l)
    THEN IF limit_reached(q) THEN "exceded max nr of answers per question"
         ELSE CASE has_finished_current_answer(q) = "True" -> "answer"
                [] has_finished_current_answer(q) = "False" -> "unfinished answer"
                [] OTHER -> "AttributeError"
    ELSE IF is_a_description(l) THEN "unexpected description mark"
    ELSE IF ~is_a_comment(l)
    THEN IF q.current_answer = None THEN "AttributeError" ELSE "append_answer"
    ELSE "stay"

\* a faulty _process_current_answer: a malformed header opens an answer
_process_current_answer_lenient(l) == "answer"

\* _process_current_answer: the header decides between a new answer and an
\* error
_process_current_answer(l) ==
    IF process_answer_mark(l).ok THEN "answer" ELSE "badformed answer header"

-----------------------------------------------------------------------------
(* Exits *)

show_error_and_exit(msg, exit_code) ==
    /\ stderr' = [kind |-> "option", file |-> "", line |-> 0, msg |-> msg]
    /\ exitcode' = exit_code
    /\ pc' = "exit"

\* a faulty show_scan_error_and_exit: the message is printed and the scan
\* goes on
show_scan_error_and_go_on(filename, line, msg) ==
    /\ stderr' = [kind |-> "scan", file |-> filename, line |-> line, msg |-> msg]
    /\ UNCHANGED <<exitcode, pc>>

show_scan_error_and_exit(filename, line, msg) ==
    /\ stderr' = [kind |-> "scan", file |-> filename, line |-> line, msg |-> msg]
    /\ exitcode' = 3
    /\ pc' = "exit"

\* an exception nobody catches: the interpreter prints a traceback and exits
\* with status 1
uncaught(exc) ==
    /\ stderr' = [kind |-> "traceback", file |-> "", line |-> 0, msg |-> exc]
    /\ exitcode' = 1
    /\ pc' = "exit"

running == UNCHANGED <<pc, stderr, exitcode>>

-----------------------------------------------------------------------------
(* The effect of a scanner step *)

\* a faulty addAnswer: a final answer joins the regular ones
addAnswer_to_answers(h) ==
    LET id == Len(heap) + 1
    IN  /\ heap' = Append(heap, Answer(h.correct, h.final))
        /\ lists' = [lists EXCEPT ![question.answers] = Append(@, id)]
        /\ question' = [question EXCEPT !.current_answer = id]

\* Question.addAnswer of a new Answer with the flags of header h
addAnswer(h) ==
    LET id == Len(heap) + 1
        target == IF h.final /\ options.placefinals
                  THEN question.final_answers
                  ELSE question.answers
    IN  /\ heap' = Append(heap, Answer(h.correct, h.final))
        /\ lists' = [lists EXCEPT ![target] = Append(@, id)]
        /\ question' = [question EXCEPT !.current_answer = id]

\* perform outcome `out` of a handler for line l, read as line number n;
\* `next` is the state the handler leaves when it changes none
Perform(out, l, n, next) ==
    CASE out = "stay" ->
            /\ state' = next
            /\ UNCHANGED <<question, quiz, heap, lists>>
            /\ running
      [] out = "title" ->
            /\ state' = "title"
            /\ question' = reset(question, lists)
            /\ lists' = resetLists(lists)
            /\ UNCHANGED <<quiz, heap>>
            /\ running
      [] out = "description" ->
            /\ state' = "description"
            /\ UNCHANGED <<question, quiz, heap, lists>>
            /\ running
      [] out = "commit" ->
            /\ quiz' = [quiz EXCEPT !.questions = Append(@, clone(question))]
            /\ question' = reset(question, lists)
            /\ lists' = resetLists(lists)
            /\ state' = "title"
            /\ UNCHANGED heap
            /\ running
      [] out = "answer" ->
            IF _process_current_answer(l) = "answer"
            THEN /\ addAnswer(process_answer_mark(l))
                 /\ state' = "answer"
                 /\ UNCHANGED quiz
                 /\ running
            ELSE /\ show_scan_error_and_exit(quiz.filename, n,
                                             _process_current_answer(l))
                 /\ UNCHANGED scanvars
      [] out = "append_title" ->
            /\ question' = appendToTitle(question, l)
            /\ state' = next
            /\ UNCHANGED <<quiz, heap, lists>>
            /\ running
      [] out = "append_descr" ->
            /\ question' = add_description(question, l)
            /\ state' = next
            /\ UNCHANGED <<quiz, heap, lists>>
            /\ running
      [] out = "append_answer" ->
            /\ heap' = [heap EXCEPT ![question.current_answer].text = @ \o l]
            /\ state' = next
            /\ UNCHANGED <<question, quiz, lists>>
            /\ running
      [] out = "AttributeError" ->
            /\ uncaught("AttributeError")
            /\ UNCHANGED scanvars
      [] OTHER ->
            /\ show_scan_error_and_exit(quiz.filename, n, out)
            /\ UNCHANGED scanvars

-----------------------------------------------------------------------------
(* Options *)

QuizNames == {"a.quiz", "b.quiz"}

\* fn.endswith(".quiz")
has_quiz_extension(fn) == fn \in QuizNames

\* a faulty check: --noShuffle is accepted with any other option
option_error_without_conflicts(o) ==
    IF ~o.outputfile THEN "Output filename must be set"
    ELSE IF o.maxanswers < 2
    THEN "Maximum number of answers must be at least 2"
    ELSE IF \E i \in 1..Len(o.files) : ~has_quiz_extension(o.files[i])
    THEN "Input files must have .quiz extension"
    ELSE ""

\* a faulty cascade: the shuffle of files does not imply that of questions
expand_options_without_files_cascade(o) ==
    LET o1 == [o EXCEPT !.shuffleanswers = o.shuffleanswers \/ o.shuffleall]
        o2 == [o1 EXCEPT !.shufflequestions = o1.shufflequestions \/ o1.shuffleall]
    IN  [o2 EXCEPT !.shufflefiles = o2.shufflefiles \/ o2.shuffleall]

\* exit_if_option_errors: the message of the first error, or "" (the checks
\* of the file system are not modelled: input files exist, output files may
\* be written)
option_error(o) ==
    IF ~o.outputfile THEN "Output filename must be set"
    ELSE IF o.noshuffle /\ (o.shuffleall \/ o.shufflequestions
                            \/ o.shuffleanswers \/ o.shufflefiles)
    THEN "Incompatible options"
    ELSE IF o.maxanswers < 2
    THEN "Maximum number of answers must be at least 2"
    ELSE IF \E i \in 1..Len(o.files) : ~has_quiz_extension(o.files[i])
    THEN "Input files must have .quiz extension"
    ELSE ""

expand_options(o) ==
    LET o1 == [o EXCEPT !.shuffleanswers = o.shuffleanswers \/ o.shuffleall]
        o2 == [o1 EXCEPT !.shufflequestions = o1.shufflequestions \/ o1.shuffleall]
        o3 == [o2 EXCEPT !.shufflefiles = o2.shufflefiles \/ o2.shuffleall]
    IN  [o3 EXCEPT !.shufflequestions = o3.shufflequestions \/ o3.shufflefiles]

\* the namespaces parse_args can return, over the given choices
OptionsOver(files, maxanswers, flags) ==
    [ outputfile : BOOLEAN, files : files, maxanswers : maxanswers,
      noshuffle : flags, shuffleall : flags, shufflequestions : flags,
      shuffleanswers : flags, shufflefiles : flags, placefinals : BOOLEAN,
      fixavalanswernr : {FALSE}, startnr : {1} ]

-----------------------------------------------------------------------------
(* Actions *)

\* get_options
GetOptions ==
    /\ pc = "options"
    /\ IF option_error(options) # ""
       THEN /\ show_error_and_exit(option_error(options), 1)
            /\ UNCHANGED options
       ELSE /\ options' = expand_options(options)
            /\ pc' = "process"
            /\ UNCHANGED <<stderr, exitcode>>
    /\ UNCHANGED <<quizes, filenr, quiz, state, nlin, fpos, lin, question,
                   heap, lists, log, written, output, xmlvars>>

\* QuizSet._process up to the first line: a new Quiz, and the start of
\* _scan_quiz_file
Process ==
    /\ pc = "process"
    /\ quiz' = [filename |-> options.files[filenr], questions |-> <<>>]
    /\ state' = "question"
    /\ nlin' = 0
    /\ fpos' = 0
    /\ lin' = <<>>
    /\ question' = reset(question, lists)
    /\ lists' = resetLists(lists)
    /\ pc' = "scan"
    /\ UNCHANGED <<options, stderr, exitcode, quizes, filenr, heap, log,
                   written, output, xmlvars>>

\* a faulty line count: comment lines are not counted
next_nlin_skipping_comments(l) == IF is_a_comment(l) THEN nlin ELSE nlin + 1

\* _scan_quiz_file: the line number of line l, counted when it is read
next_nlin(l) == nlin + 1

\* one turn of the loop of _scan_quiz_file: the file delivers line l
ReadLine(l) ==
    /\ pc = "scan"
    /\ fpos' = fpos + 1
    /\ lin' = l
    /\ nlin' = next_nlin(l)
    /\ UNCHANGED <<options, quizes, filenr, log, written, output,
                   xmlvars>>

SkipComment(l) ==
    /\ ReadLine(l)
    /\ is_a_comment(l)
    /\ UNCHANGED scanvars
    /\ running

ScanQuestion(l) ==
    /\ ReadLine(l)
    /\ ~is_a_comment(l)
    /\ state = "question"
    /\ Perform(_scan_question(l, question), l, nlin', "question")

ScanTitle(l) ==
    /\ ReadLine(l)
    /\ ~is_a_comment(l)
    /\ state = "title"
    /\ Perform(_scan_title(l, question), l, nlin', "title")

ScanDescription(l) ==
    /\ ReadLine(l)
    /\ ~is_a_comment(l)
    /\ state = "description"
    /\ Perform(_scan_description(l, question), l, nlin', "description")

ScanAnswer(l) ==
    /\ ReadLine(l)
    /\ ~is_a_comment(l)
    /\ state = "answer"
    /\ Perform(_scan_answer(l, question), l, nlin', "answer")

\* the end of the file: the check of the last question, and the return to
\* QuizSet._process and QuizSet.run
EndOfFile ==
    /\ pc = "scan"
    /\ CASE is_complete(question) = "True" ->
                /\ quiz' = [quiz EXCEPT !.questions = Append(@, question)]
                /\ quizes' = Append(quizes, quiz')
                /\ filenr' = filenr + 1
                /\ pc' = IF filenr < Len(options.files) THEN "process"
                         ELSE "postprocess"
                /\ UNCHANGED <<stderr, exitcode>>
         [] is_complete(question) = "False" ->
                /\ show_scan_error_and_exit(quiz.filename, nlin,
                       "end of file reached leaving unfinished question")
                /\ UNCHANGED <<quiz, quizes, filenr>>
         [] OTHER ->
                /\ uncaught(is_complete(question))
                /\ UNCHANGED <<quiz, quizes, filenr>>
    /\ UNCHANGED <<options, state, nlin, fpos, lin, question, heap, lists,
                   log, written, output, xmlvars>>

-----------------------------------------------------------------------------
(* Postprocessing *)

RECURSIVE all_questions(_)
\* QuizSet._postprocess: the questions of all quizes, in order
all_questions(qz) ==
    IF qz = <<>> THEN <<>>
    ELSE Head(qz).questions \o all_questions(Tail(qz))

\* a faulty pooling: the quizes are left as they are
not_pooled(qz) == qz

\* QuizSet._postprocess: the quizes that are postprocessed
pooled(qz) ==
    IF options.shufflefiles
    THEN << [filename |-> "allfiles", questions |-> all_questions(qz)] >>
    ELSE qz

Identity(n) == [i \in 1..n |-> i]

\* a faulty shuffle: elements may be repeated and lost
Shuffles_with_repetition(n) == [1..n -> 1..n]

\* the orders random.shuffle can leave a list of n elements in
Shuffles(n) ==
    { p \in [1..n -> 1..n] : \A i, j \in 1..n : i # j => p[i] # p[j] }

Permute(s, p) == [i \in 1..Len(s) |-> s[p[i]]]

\* Quiz._shuffle_questions: the orders the questions of a quiz can get
QuestionOrders(n) ==
    IF options.shufflequestions THEN Shuffles(n) ELSE {Identity(n)}

\* Question._shuffle_answers: the orders the regular answers can get
AnswerOrders(n) ==
    IF options.shuffleanswers THEN Shuffles(n) ELSE {Identity(n)}

\* a faulty weighting: the final answers are not counted
weight_of_regular_answers(q, a) ==
    LET answers == [i \in 1..Len(lists[q.answers]) |->
                        heap[lists[q.answers][i]]]
        nr_correct_answers ==
            Cardinality({i \in 1..Len(answers) : answers[i].is_correct})
        nr_incorrect_answers == Len(answers) - nr_correct_answers
    IN  IF a.is_correct
        THEN IF nr_correct_answers > 0 THEN <<1, nr_correct_answers>>
             ELSE <<0, 1>>
        ELSE IF nr_incorrect_answers > 0 THEN <<-1, nr_incorrect_answers>>
             ELSE <<0, 1>>

\* a faulty weighting: the weight is added to the weight the answer has
weight_of_accumulated(q, a) ==
    LET answers == AnswersOf(q)
        nr_correct_answers ==
            Cardinality({i \in 1..Len(answers) : answers[i].is_correct})
        nr_incorrect_answers == Len(answers) - nr_correct_answers
        w == IF a.is_correct
             THEN IF nr_correct_answers > 0 THEN <<1, nr_correct_answers>>
                  ELSE <<0, 1>>
             ELSE IF nr_incorrect_answers > 0 THEN <<-1, nr_incorrect_answers>>
                  ELSE <<0, 1>>
    IN  <<a.weight[1] * w[2] + w[1] * a.weight[2], a.weight[2] * w[2]>>

\* Question._compute_weights: the weight of answer a of question q, a
\* fraction <<numerator, denominator>>
weight_of(q, a) ==
    LET answers == AnswersOf(q)
        nr_correct_answers ==
            Cardinality({i \in 1..Len(answers) : answers[i].is_correct})
        nr_incorrect_answers == Len(answers) - nr_correct_answers
        correct_weight ==
            IF nr_correct_answers > 0 THEN <<1, nr_correct_answers>>
            ELSE <<0, 1>>
        incorrect_weight ==
            IF nr_incorrect_answers > 0 THEN <<-1, nr_incorrect_answers>>
            ELSE <<0, 1>>
    IN  IF a.is_correct THEN correct_weight ELSE incorrect_weight

\* Question.postprocess: the question's own fields
postprocess_question(q) ==
    [q EXCEPT !.title = strip(@), !.descr = strip(@)]

\* a faulty Question.postprocess: the weights are computed after the answers
\* are shuffled
question_log_weighting_late(q) ==
    (IF options.shuffleanswers
     THEN << <<"shuffle_answers", q.answers>> >> ELSE <<>>)
        \o << <<"compute_weights", q.answers>> >>
        \o << <<"postprocess_answers", q.answers>> >>

\* Question.postprocess: the operations on question q, in order
question_log(q) ==
    << <<"compute_weights", q.answers>> >>
        \o (IF options.shuffleanswers
            THEN << <<"shuffle_answers", q.answers>> >> ELSE <<>>)
        \o << <<"postprocess_answers", q.answers>> >>

RECURSIVE questions_log(_)
questions_log(qs) ==
    IF qs = <<>> THEN <<>>
    ELSE question_log(Head(qs)) \o questions_log(Tail(qs))

\* a faulty Quiz.postprocess: the questions are shuffled after they are
\* postprocessed
quiz_log_shuffling_last(k, qs) ==
    questions_log(qs)
        \o (IF options.shufflequestions
            THEN << <<"shuffle_questions", k>> >> ELSE <<>>)

\* Quiz.postprocess: the operations on quiz number k, whose questions are
\* qs once shuffled
quiz_log(k, qs) ==
    (IF options.shufflequestions
     THEN << <<"shuffle_questions", k>> >> ELSE <<>>)
        \o questions_log(qs)

RECURSIVE quizes_log(_, _)
quizes_log(qz, k) ==
    IF k > Len(qz) THEN <<>>
    ELSE quiz_log(k, qz[k].questions) \o quizes_log(qz, k + 1)

\* QuizSet._postprocess, with qorder[k] the order random.shuffle gives the
\* questions of quiz k and aorder[id] the order it gives answer list id
Postprocess ==
    /\ pc = "postprocess"
    /\ LET pool == pooled(quizes)
           qs == all_questions(pool)
           owner(id) == CHOOSE i \in 1..Len(qs) :
                            \E j \in 1..Len(AnswerIds(qs[i])) :
                                AnswerIds(qs[i])[j] = id
           owned == { id \in 1..Len(heap) :
                        \E i \in 1..Len(qs) :
                            \E j \in 1..Len(AnswerIds(qs[i])) :
                                AnswerIds(qs[i])[j] = id }
           regular == { qs[i].answers : i \in 1..Len(qs) }
       IN  \E qorder \in [1..Len(pool) ->
                            UNION { QuestionOrders(Len(pool[k].questions)) :
                                        k \in 1..Len(pool) }] :
           \E aorder \in [regular ->
                            UNION { AnswerOrders(Len(lists[id])) :
                                        id \in regular }] :
             /\ \A k \in 1..Len(pool) :
                    qorder[k] \in QuestionOrders(Len(pool[k].questions))
             /\ \A id \in regular : aorder[id] \in AnswerOrders(Len(lists[id]))
             /\ quizes' =
                    [k \in 1..Len(pool) |->
                        [pool[k] EXCEPT !.questions =
                            LET shuffled == Permute(@, qorder[k])
                            IN  [i \in 1..Len(shuffled) |->
                                    postprocess_question(shuffled[i])]]]
             /\ heap' =
                    [id \in 1..Len(heap) |->
                        IF id \in owned
                        THEN [heap[id] EXCEPT
                                !.weight = weight_of(qs[owner(id)], heap[id]),
                                !.text = strip(@)]
                        ELSE heap[id]]
             /\ lists' =
                    [id \in 1..Len(lists) |->
                        IF id \in regular THEN Permute(lists[id], aorder[id])
                        ELSE lists[id]]
             /\ log' = log \o quizes_log(quizes', 1)
    /\ pc' = "export"
    /\ UNCHANGED <<options, stderr, exitcode, filenr, quiz, state, nlin, fpos,
                   lin, question, written, output, xmlvars>>

\* Question._rst_compose_answers: the answers of question q in the order
\* they are rendered, each with its number
_rst_compose_answers(q) ==
    [start_nr \in 1..Len(AnswerIds(q)) |->
        [start_nr |-> start_nr, answer |-> AnswerIds(q)[start_nr]]]

-----------------------------------------------------------------------------
(* quiz2moodlexml.py: the weights of the answers of a question *)

\* the decimal digits, as text
Digits == <<"0", "1", "2", "3", "4", "5", "6", "7", "8", "9">>

\* "%d" % n, for n >= 0
RECURSIVE str(_)
str(n) == IF n < 10 THEN <<Digits[n + 1]>>
          ELSE str(n \div 10) \o <<Digits[(n % 10) + 1]>>

\* the quotient num/den rounded to the nearest integer, a tie to even
round_half_even(num, den) ==
    LET q == num \div den
        r == num % den
    IN  IF 2 * r > den \/ (2 * r = den /\ q % 2 = 1) THEN q + 1 ELSE q

\* "%0.3f" % x for the float x = num/den, den # 0
format_3f(num, den) ==
    LET negative == (num < 0) # (den < 0)
        n == IF num < 0 THEN -num ELSE num
        d == IF den < 0 THEN -den ELSE den
        thousandths == round_half_even(1000 * n, d)
        frac == thousandths % 1000
    IN  (IF negative THEN <<"-">> ELSE <<>>)
        \o str(thousandths \div 1000) \o <<".">>
        \o <<Digits[(frac \div 100) + 1], Digits[((frac \div 10) % 10) + 1],
             Digits[(frac % 10) + 1]>>

_MAP_GIFT_WEIGHTS ==
    (1 :> <<"1", "0", "0">>) @@
    (2 :> <<"5", "0">>) @@
    (3 :> <<"3", "3", ".", "3", "3", "3", "3", "3">>) @@
    (4 :> <<"2", "5">>) @@
    (5 :> <<"2", "0">>) @@
    (6 :> <<"1", "6", ".", "6", "6", "6", "6", "7">>) @@
    (7 :> <<"1", "4", ".", "2", "8", "5", "7", "1">>) @@
    (8 :> <<"1", "2", ".", "5">>) @@
    (9 :> <<"1", "1", ".", "1", "1", "1", "1", "1">>) @@
    (10 :> <<"1", "0">>) @@
    (-10 :> <<"-", "1", "0">>) @@
    (-9 :> <<"-", "1", "1", ".", "1", "1", "1", "1", "1">>) @@
    (-8 :> <<"-", "1", "2", ".", "5">>) @@
    (-7 :> <<"-", "1", "4", ".", "2", "8", "5", "7", "1">>) @@
    (-6 :> <<"-", "1", "6", ".", "6", "6", "6", "6", "7">>) @@
    (-5 :> <<"-", "2", "0">>) @@
    (-4 :> <<"-", "2", "5">>) @@
    (-3 :> <<"-", "3", "3", ".", "3", "3", "3", "3", "3">>) @@
    (-2 :> <<"-", "5", "0">>) @@
    (-1 :> <<"-", "1", "0", "0">>)

\* Question.reset of quiz2moodlexml.py: the answers and their two counters
xml_reset ==
    [answers |-> <<>>, nr_correct_answers |-> 0, nr_incorrect_answers |-> 0]

\* Question.add_answer of quiz2moodlexml.py
add_answer(q, answer) ==
    [q EXCEPT !.answers = Append(@, answer),
              !.nr_correct_answers =
                  IF answer.is_correct THEN @ + 1 ELSE @,
              !.nr_incorrect_answers =
                  IF answer.is_correct THEN @ ELSE @ + 1]

_compute_answer_class(q, is_correct) ==
    IF is_correct THEN q.nr_correct_answers ELSE -q.nr_incorrect_answers

\* the float 1.0 / class, as the fraction <<numerator, denominator>>
_compute_answer_weight_fulldecimal(q, is_correct) ==
    <<1, _compute_answer_class(q, is_correct)>>

\* a faulty weight: the table is never used
_compute_answer_weight_for_gift_without_table(q, is_correct) ==
    format_3f(1, _compute_answer_class(q, is_correct))

_compute_answer_weight_for_gift(q, is_correct) ==
    LET nr == _compute_answer_class(q, is_correct)
        fulldecimal == _compute_answer_weight_fulldecimal(q, is_correct)
    IN  IF nr \in DOMAIN _MAP_GIFT_WEIGHTS THEN _MAP_GIFT_WEIGHTS[nr]
        ELSE format_3f(fulldecimal[1], fulldecimal[2])

\* the weights _xml_composeanswers renders, one for each answer, in the
\* order of Question.answers
_xml_composeanswers(q) ==
    [i \in 1..Len(q.answers) |->
        _compute_answer_weight_for_gift(q, q.answers[i].is_correct)]

\* the list of answers the question in progress is bound to: the one
\* created last, by the last reset
xml_bound(ls) == Len(ls)

\* a faulty clone: the counters of the clone are those of a new question
xml_clone_without_counters(q, ls) ==
    [answers |-> xml_bound(ls),
     nr_correct_answers |-> xml_reset.nr_correct_answers,
     nr_incorrect_answers |-> xml_reset.nr_incorrect_answers]

\* Question.clone of quiz2moodlexml.py: the clone is bound to the list of
\* the original and takes its two counters
xml_clone(q, ls) ==
    [answers |-> xml_bound(ls),
     nr_correct_answers |-> q.nr_correct_answers,
     nr_incorrect_answers |-> q.nr_incorrect_answers]

\* a question of Quiz.questions with the contents of its list
xml_contents(c, ls) ==
    [answers |-> ls[c.answers],
     nr_correct_answers |-> c.nr_correct_answers,
     nr_incorrect_answers |-> c.nr_incorrect_answers]

\* an answer mark is scanned: the answer joins the question
XmlAddAnswer(h) ==
    /\ xml = <<>>
    /\ Len(xquestion.answers) < MaxXmlAnswers
    /\ h.final
       => Cardinality({ i \in 1..Len(xquestion.answers) :
                          xquestion.answers[i].is_final }) < MaxXmlFinals
    /\ xquestion' = add_answer(xquestion,
                        [is_correct |-> h.correct, is_final |-> h.final])
    /\ xlists' = [xlists EXCEPT ![xml_bound(xlists)] = xquestion'.answers]
    /\ UNCHANGED <<pc, options, stderr, exitcode, quizes, filenr, quiz, state,
                   nlin, fpos, lin, question, heap, lists, log, written, output,
                   xml, xquestions>>

\* a question mark is scanned after the description or the answers of a
\* question: its clone joins the quiz and the question is reset, which
\* binds it to a new list
XmlNextQuestion ==
    /\ xml = <<>>
    /\ xquestions' = Append(xquestions, xml_clone(xquestion, xlists))
    /\ xquestion' = xml_reset
    /\ xlists' = Append(xlists, xml_reset.answers)
    /\ UNCHANGED <<pc, options, stderr, exitcode, quizes, filenr, quiz, state,
                   nlin, fpos, lin, question, heap, lists, log, written, output,
                   xml>>

\* the end of the file after the answers of a question: the question itself
\* joins the quiz, and Quiz.toXML renders the questions of the quiz
XmlEndOfFile ==
    /\ xml = <<>>
    /\ xquestion.answers # <<>>
    /\ xquestions' = Append(xquestions,
                        [answers |-> xml_bound(xlists),
                         nr_correct_answers |-> xquestion.nr_correct_answers,
                         nr_incorrect_answers |->
                             xquestion.nr_incorrect_answers])
    /\ xml' = [i \in 1..Len(xquestions') |->
                  _xml_composeanswers(xml_contents(xquestions'[i], xlists))]
    /\ UNCHANGED <<pc, options, stderr, exitcode, quizes, filenr, quiz, state,
                   nlin, fpos, lin, question, heap, lists, log, written, output,
                   xquestion, xlists>>

\* Question.toXML
XmlCompose ==
    /\ xml = <<>>
    /\ xml' = <<_xml_composeanswers(xquestion)>>
    /\ UNCHANGED <<pc, options, stderr, exitcode, quizes, filenr, quiz, state,
                   nlin, fpos, lin, question, heap, lists, log, written, output,
                   xquestion, xquestions, xlists>>

-----------------------------------------------------------------------------
(* shufflequiz.py: the output files *)

\* the letters chr(ord("a")), chr(ord("a") + 1), ...
Alphabet ==
    <<"a", "b", "c", "d", "e", "f", "g", "h", "i", "j", "k", "l", "m", "n",
      "o", "p", "q", "r", "s", "t", "u", "v", "w", "x", "y", "z">>

\* compose_answer_id
compose_answer_id(nr) == Alphabet[nr]

\* "%.2f" % x for the float x = num/den, den # 0
format_2f(num, den) ==
    LET negative == (num < 0) # (den < 0)
        n == IF num < 0 THEN -num ELSE num
        d == IF den < 0 THEN -den ELSE den
        hundredths == round_half_even(100 * n, d)
        frac == hundredths % 100
    IN  (IF negative /\ n # 0 THEN <<"-">> ELSE <<>>)
        \o str(hundredths \div 100) \o <<".">>
        \o <<Digits[(frac \div 10) + 1], Digits[(frac % 10) + 1]>>

\* Answer.toRST: the parts of the text "%s*%s)* %s"
Answer_toRST(a, nr, answer_weighted) ==
    [rst_weight |-> IF answer_weighted
                    THEN <<"[">> \o format_2f(a.weight[1], a.weight[2])
                            \o <<"]", " ">>
                    ELSE <<>>,
     rst_answer_id |-> compose_answer_id(nr),
     text |-> a.text]

\* Question._rst_compose_title: the title line
_rst_compose_title(q, nr) ==
    <<_QUESTION_MARK, " ">> \o str(nr) \o <<":", " ">> \o q.title

\* Question.toRST: the parts of the text
Question_toRST(q, nr, answers_weighted) ==
    [title |-> _rst_compose_title(q, nr),
     descr |-> q.descr,
     answers |-> [i \in 1..Len(_rst_compose_answers(q)) |->
                    Answer_toRST(heap[_rst_compose_answers(q)[i].answer],
                                 _rst_compose_answers(q)[i].start_nr,
                                 answers_weighted)]]

\* Quiz.toRST: the questions of quiz z rendered, numbered from start_nr
Quiz_toRST(z, start_nr, answers_weighted) ==
    [i \in 1..Len(z.questions) |->
        Question_toRST(z.questions[i], start_nr + i - 1, answers_weighted)]

\* a header of the evaluation file, '"%s.%s"'
eval_header(nr, a) == <<"\"">> \o str(nr) \o <<".", compose_answer_id(a), "\"">>

\* a faulty padding: one placeholder fewer
Question_toEval_short_of_one(q, nr) ==
    LET answers == AnswerIds(q)
        start_nr == Len(answers) + 1
        padding == IF options.fixavalanswernr
                   THEN start_nr..(options.maxanswers - 1) ELSE {}
        columns == (1..Len(answers)) \cup padding
    IN  [headers |-> [a \in columns |-> eval_header(nr, a)],
         weights |-> [a \in columns |->
                        IF a <= Len(answers) THEN heap[answers[a]].weight
                        ELSE <<0, 1>>]]

\* Question.toEval: the headers and the weights of question q numbered nr;
\* range(start_nr, maxanswers + 1) is the padding
Question_toEval(q, nr) ==
    LET answers == AnswerIds(q)
        start_nr == Len(answers) + 1
        padding == IF options.fixavalanswernr
                   THEN start_nr..options.maxanswers ELSE {}
        columns == (1..Len(answers)) \cup padding
    IN  [headers |-> [a \in columns |-> eval_header(nr, a)],
         weights |-> [a \in columns |->
                        IF a <= Len(answers) THEN heap[answers[a]].weight
                        ELSE <<0, 1>>]]

RECURSIVE Quiz_toEval_unnumbered(_, _)
\* a faulty numbering: every question of a quiz gets the number start_nr
Quiz_toEval_unnumbered(qs, start_nr) ==
    IF qs = <<>> THEN [headers |-> <<>>, weights |-> <<>>]
    ELSE LET first == Question_toEval(Head(qs), start_nr)
             rest == Quiz_toEval_unnumbered(Tail(qs), start_nr)
         IN  [headers |-> first.headers \o rest.headers,
              weights |-> first.weights \o rest.weights]

RECURSIVE Quiz_toEval(_, _)
\* Quiz.toEval: the headers and the weights of the questions qs, numbered
\* from start_nr
Quiz_toEval(qs, start_nr) ==
    IF qs = <<>> THEN [headers |-> <<>>, weights |-> <<>>]
    ELSE LET first == Question_toEval(Head(qs), start_nr)
             rest == Quiz_toEval(Tail(qs), start_nr + 1)
         IN  [headers |-> first.headers \o rest.headers,
              weights |-> first.weights \o rest.weights]

RECURSIVE export_rst(_, _, _)
\* the loop of QuizSet._export_exam and QuizSet._export_validation
export_rst(qz, start_nr, answers_weighted) ==
    IF qz = <<>> THEN <<>>
    ELSE Quiz_toRST(Head(qz), start_nr, answers_weighted)
            \o export_rst(Tail(qz), start_nr + Len(Head(qz).questions),
                          answers_weighted)

\* QuizSet._export_exam
_export_exam == export_rst(quizes, options.startnr, FALSE)

\* QuizSet._export_validation
_export_validation == export_rst(quizes, options.startnr, TRUE)

RECURSIVE export_eval(_, _)
\* the loop of QuizSet._export_eval
export_eval(qz, start_nr) ==
    IF qz = <<>> THEN [headers |-> <<>>, weights |-> <<>>]
    ELSE LET first == Quiz_toEval(Head(qz).questions, start_nr)
             rest == export_eval(Tail(qz),
                                 start_nr + Len(Head(qz).questions))
         IN  [headers |-> first.headers \o rest.headers,
              weights |-> first.weights \o rest.weights]

\* QuizSet._export_eval: the two rows of the file, each the list of cells
\* that is joined with options.csvseparator
_export_eval == export_eval(quizes, options.startnr)

\* the output files before they are written
NoOutput ==
    [exam |-> <<>>, revision |-> <<>>,
     eval |-> [headers |-> <<>>, weights |-> <<>>]]

\* QuizSet.export, and the return of main
Export ==
    /\ pc = "export"
    /\ written' = {"exam", "revision", "eval"}
    /\ output' = [exam |-> _export_exam, revision |-> _export_validation,
                  eval |-> _export_eval]
    /\ exitcode' = 0
    /\ pc' = "done"
    /\ UNCHANGED <<options, stderr, quizes, filenr, quiz, state, nlin, fpos,
                   lin, question, heap, lists, log, xmlvars>>

-----------------------------------------------------------------------------
(* Specifications *)

NoQuestion ==
    [title |-> <<>>, descr |-> <<>>, answers |-> None,
     final_answers |-> None, current_answer |-> None]

InitWith(optionset) ==
    /\ pc = "options"
    /\ options \in optionset
    /\ stderr = NoError
    /\ exitcode = -1
    /\ quizes = <<>>
    /\ filenr = 1
    /\ quiz = [filename |-> "", questions |-> <<>>]
    /\ state = "question"
    /\ nlin = 0
    /\ fpos = 0
    /\ lin = <<>>
    /\ question = NoQuestion
    /\ heap = <<>>
    /\ lists = <<>>
    /\ log = <<>>
    /\ written = {}
    /\ output = NoOutput
    /\ xquestion = xml_reset
    /\ xml = <<>>
    /\ xquestions = <<>>
    /\ xlists = <<xml_reset.answers>>

\* the lines a file written with the lines of L, at most n lines long, may
\* deliver next
More(L, n) == IF fpos < n THEN L ELSE {}

\* the steps of a run whose input files are written with the lines of L and
\* are at most n lines long
NextUpTo(L, n) ==
    \/ GetOptions
    \/ Process
    \/ \E l \in More(L, n) : SkipComment(l)
    \/ \E l \in More(L, n) : ScanQuestion(l)
    \/ \E l \in More(L, n) : ScanTitle(l)
    \/ \E l \in More(L, n) : ScanDescription(l)
    \/ \E l \in More(L, n) : ScanAnswer(l)
    \/ EndOfFile
    \/ Postprocess
    \/ Export

NextOver(L) == NextUpTo(L, MaxLines)

\* one input file, no shuffling, every kind of line
Init ==
    InitWith(OptionsOver({<<"a.quiz">>, <<"c.txt">>}, 0..MaxMaxAnswers,
                         {FALSE}))

Next == NextOver(Lines)

Spec == Init /\ [][Next]_vars

\* two input files, no shuffling, one line of every kind
RunLines ==
    { CommentPrefix("#") \o <<" ", "a", "\n">>, QuestionLine,
      DescriptionLine, MarkPrefix(_ANSWER_MARK) \o <<" ", "+", "\n">>,
      MarkPrefix(_ANSWER_MARK) \o <<" ", "x", "\n">>, <<"a", "\n">> }

InitRun ==
    InitWith(OptionsOver({<<"a.quiz", "b.quiz">>}, {MaxMaxAnswers}, {FALSE}))

NextRun == NextOver(RunLines)

SpecRun == InitRun /\ [][NextRun]_vars

\* the characters answer marks are written with after the colon
FlagChars == {"+", "-", "f", "x", " "}

RECURSIVE Tails(_)
\* the texts of at most n characters of FlagChars
Tails(n) ==
    IF n = 0 THEN {<<>>}
    ELSE Tails(n - 1) \cup { Append(t, c) : t \in Tails(n - 1), c \in FlagChars }

\* one input file, no shuffling, every answer mark of at most MaxTail
\* characters after the colon
MarkLines ==
    { CommentPrefix("#") \o <<" ", "a", "\n">>, QuestionLine,
      DescriptionLine, <<"a", "\n">> }
    \cup { MarkPrefix(_ANSWER_MARK) \o t \o <<"\n">> : t \in Tails(MaxTail) }

InitMark == InitWith(OptionsOver({<<"a.quiz">>}, {MaxMaxAnswers}, {FALSE}))

NextMark == NextOver(MarkLines)

SpecMark == InitMark /\ [][NextMark]_vars

\* quiz2moodlexml.py: the answers of one question are scanned, then the
\* question is rendered.  The marks are +, - and -f.
XmlHeaders ==
    { [ok |-> TRUE, correct |-> TRUE, final |-> FALSE],
      [ok |-> TRUE, correct |-> FALSE, final |-> FALSE],
      [ok |-> TRUE, correct |-> FALSE, final |-> TRUE] }

InitXml ==
    InitWith({ o \in OptionsOver({<<"a.quiz">>}, {MaxMaxAnswers}, {FALSE}) :
                 o.outputfile /\ o.placefinals })

NextXml ==
    \/ \E h \in XmlHeaders : XmlAddAnswer(h)
    \/ XmlCompose

SpecXml == InitXml /\ [][NextXml]_vars

\* quiz2moodlexml.py: the questions of one file are scanned, each with
\* answers of the marks + and -, then the quiz is rendered
XmlScanHeaders == { h \in XmlHeaders : ~h.final }

NextXmlScan ==
    \/ \E h \in XmlScanHeaders :
          /\ Len(xquestion.answers) < MaxXmlScanAnswers
          /\ XmlAddAnswer(h)
    \/ Len(xquestions) < MaxXmlQuestions /\ XmlNextQuestion
    \/ XmlEndOfFile

SpecXmlScan == InitXml /\ [][NextXmlScan]_vars

\* one input file with answers of every mark, with and without the shuffle
\* of answers, --noShuffle and --noPlaceFinal
ShuffleLines ==
    { CommentPrefix("#") \o <<" ", "a", "\n">>, QuestionLine,
      DescriptionLine, <<"a", "\n">> }
    \cup { MarkPrefix(_ANSWER_MARK) \o t :
             t \in { <<" ", "+", "\n">>, <<" ", "-", "\n">>,
                     <<" ", "+", "f", "\n">>, <<" ", "-", "f", "\n">> } }

InitShuffle ==
    InitWith({ o \in OptionsOver({<<"a.quiz">>}, {MaxMaxAnswers + 1}, BOOLEAN) :
                 /\ o.outputfile
                 /\ ~o.shuffleall
                 /\ ~o.shufflequestions
                 /\ ~o.shufflefiles })

NextShuffle == NextUpTo(ShuffleLines, MaxLongLines)

SpecShuffle == InitShuffle /\ [][NextShuffle]_vars

\* two input files of well marked answers, with and without the shuffle of
\* questions and of files
FilesLines ==
    { CommentPrefix("#") \o <<" ", "a", "\n">>, QuestionLine,
      DescriptionLine, MarkPrefix(_ANSWER_MARK) \o <<" ", "+", "\n">>,
      <<"a", "\n">> }

InitFiles ==
    InitWith({ o \in OptionsOver({<<"a.quiz", "b.quiz">>}, {MaxMaxAnswers},
                                 BOOLEAN) :
                 /\ o.outputfile
                 /\ o.placefinals
                 /\ ~o.noshuffle
                 /\ ~o.shuffleall
                 /\ ~o.shuffleanswers })

NextFiles == NextUpTo(FilesLines, MaxLongLines)

SpecFiles == InitFiles /\ [][NextFiles]_vars

\* one input file of well marked answers, every combination of the shuffle
\* options
InitOptions == InitWith(OptionsOver({<<"a.quiz">>}, {MaxMaxAnswers}, BOOLEAN))

NextOptions == NextOver(FilesLines)

SpecOptions == InitOptions /\ [][NextOptions]_vars

\* two input files of answers regular and final, without comments, long
\* enough for two questions each; no shuffling, with and without
\* --fixAvalAnswerNr and two values of --startQuestionNumber
ExportLines ==
    { QuestionLine, DescriptionLine, MarkPrefix(_ANSWER_MARK) \o <<" ", "+", "\n">>,
      MarkPrefix(_ANSWER_MARK) \o <<" ", "-", "f", "\n">>, <<"a", "\n">> }

StartNrs == {1, 3}

InitExport ==
    InitWith({ [o EXCEPT !.fixavalanswernr = f, !.startnr = s] :
                 o \in { x \in OptionsOver({<<"a.quiz", "b.quiz">>},
                                          {MaxMaxAnswers + 1}, {FALSE}) :
                            x.outputfile /\ x.placefinals },
                 f \in BOOLEAN, s \in StartNrs })

\* the lines a file written with the lines of L, at most MaxExportLines
\* lines long and with no line of text after a line of text, may deliver next
Sparse(L) ==
    IF fpos >= MaxExportLines THEN {}
    ELSE IF lin # <<>> /\ ~is_a_mark(lin) THEN { l \in L : is_a_mark(l) }
    ELSE L

\* the steps of a run whose input files are such files, without comments
NextSparse(L) ==
    \/ GetOptions
    \/ Process
    \/ \E l \in Sparse(L) : ScanQuestion(l)
    \/ \E l \in Sparse(L) : ScanTitle(l)
    \/ \E l \in Sparse(L) : ScanDescription(l)
    \/ \E l \in Sparse(L) : ScanAnswer(l)
    \/ EndOfFile
    \/ Postprocess
    \/ Export

NextExport == NextSparse(ExportLines)

SpecExport == InitExport /\ [][NextExport]_vars

\* the same input files, with and without the shuffle of questions and the
\* shuffle of answers
InitOrder ==
    InitWith({ o \in OptionsOver({<<"a.quiz", "b.quiz">>}, {MaxMaxAnswers},
                                 BOOLEAN) :
                 /\ o.outputfile
                 /\ o.placefinals
                 /\ ~o.noshuffle
                 /\ ~o.shuffleall
                 /\ ~o.shufflefiles })

SpecOrder == InitOrder /\ [][NextExport]_vars

\* one input file of answers correct and incorrect, regular and final, and
\* two lines of text, long enough for two questions; with and without the
\* shuffle of answers and --noPlaceFinal
WeightLines ==
    { QuestionLine, DescriptionLine, <<"a", "\n">>, <<"b", " ", "\n">> }
    \cup { MarkPrefix(_ANSWER_MARK) \o t :
             t \in { <<" ", "+", "\n">>, <<" ", "-", "\n">>,
                     <<" ", "-", "f", "\n">> } }

InitWeights ==
    InitWith({ o \in OptionsOver({<<"a.quiz">>}, {MaxMaxAnswers}, BOOLEAN) :
                 /\ o.outputfile
                 /\ ~o.noshuffle
                 /\ ~o.shuffleall
                 /\ ~o.shufflequestions
                 /\ ~o.shufflefiles })

NextWeights == NextSparse(WeightLines)

SpecWeights == InitWeights /\ [][NextWeights]_vars

\* one input file whose lines of text are a word, a word between spaces and
\* a line of spaces; no shuffling
TitleLines ==
    { CommentPrefix("#") \o <<" ", "a", "\n">>, QuestionLine,
      DescriptionLine, MarkPrefix(_ANSWER_MARK) \o <<" ", "+", "\n">>,
      <<"a", "\n">>, <<" ", "b", " ", "\n">>, <<" ", "\n">> }

InitTitle ==
    InitWith({ o \in OptionsOver({<<"a.quiz">>}, {MaxMaxAnswers}, {FALSE}) :
                 o.outputfile /\ o.placefinals })

NextTitle == NextOver(TitleLines)

SpecTitle == InitTitle /\ [][NextTitle]_vars

-----------------------------------------------------------------------------
(* Vocabulary of the properties *)

\* the messages of the scanner, by the kind of error they report
StructuralMessages ==
    { "expected question but another mark found",
      "unexpected start of question", "unexpected start of answer",
      "too many description marks", "unexpected description mark" }

IncompleteFieldMessages ==
    { "question title unset", "question description unset",
      "unfinished answer" }

MalformedAnswerHeaderMessage == "badformed answer header"

AnswerLimitExceededMessage == "exceded max nr of answers per question"

UnfinishedAtEndOfFileMessage ==
    "end of file reached leaving unfinished question"

\* the scan error of the file being scanned, at line n
ScanErrorAt(n, msg) ==
    [kind |-> "scan", file |-> quiz.filename, line |-> n, msg |-> msg]

\* a step that reads one line (the line is lin', its number fpos')
StepReadsLine == pc = "scan" /\ fpos' = fpos + 1

\* the step that meets the end of the file
StepEndsFile == pc = "scan" /\ fpos' = fpos /\ pc' # "scan"

\* the questions that exist: committed to a quiz, or in progress
KnownQuestions ==
    { quiz.questions[i] : i \in 1..Len(quiz.questions) }
        \cup UNION { { quizes[k].questions[i] :
                        i \in 1..Len(quizes[k].questions) } :
                    k \in 1..Len(quizes) }
        \cup (IF question.answers # None THEN {question} ELSE {})

-----------------------------------------------------------------------------
(* C1 *)

\* C1: when the input ends in state "description" with a non-empty title, a
\* non-empty description and no answer ever opened, the scan succeeds: the
\* question is appended to the quiz with zero answers and nothing is
\* reported.
C1_EndOfFileWithoutAnswersSucceeds ==
    [][ ( /\ StepEndsFile
          /\ state = "description"
          /\ question.title # <<>>
          /\ question.descr # <<>>
          /\ question.current_answer = None )
        => ( /\ stderr' = NoError
             /\ pc' \in {"process", "postprocess"}
             /\ quiz'.questions = Append(quiz.questions, question)
             /\ get_nr_answers(question) = 0 ) ]_vars

-----------------------------------------------------------------------------
(* C2 *)

\* C2: once the options are accepted (maxanswers >= 2), every question, in
\* progress or committed, holds at most maxanswers answers, regular and
\* final together.
C2_AnswerCountWithinLimit ==
    (pc # "options" /\ options.maxanswers >= 2)
        => \A q \in KnownQuestions : get_nr_answers(q) <= options.maxanswers

\* a question in progress that is full, its first answer opened from
\* "description" and its last from "answer"
C2_Witness ==
    /\ pc = "scan"
    /\ state = "answer"
    /\ get_nr_answers(question) = options.maxanswers
    /\ heap[question.current_answer].text # <<>>

-----------------------------------------------------------------------------
(* C3 *)

\* C3: in state "answer", an answer mark read when the question holds
\* maxanswers answers exits with the answer limit error at that line,
\* whether or not the current answer has text and the header is well formed.
C3_AnswerLimitComesFirst ==
    [][ ( /\ StepReadsLine
          /\ state = "answer"
          /\ is_an_answer(lin')
          /\ get_nr_answers(question) >= options.maxanswers )
        => ( /\ pc' = "exit"
             /\ stderr' = ScanErrorAt(fpos', AnswerLimitExceededMessage)
             /\ UNCHANGED scanvars ) ]_vars

\* the limit error on the third answer mark with maxanswers = 2, raised
\* although the second answer has no text and the header is malformed
C3_Witness ==
    /\ pc = "exit"
    /\ stderr.msg = AnswerLimitExceededMessage
    /\ options.maxanswers = 2
    /\ get_nr_answers(question) = 2
    /\ heap[question.current_answer].text = <<>>
    /\ ~process_answer_mark(lin).ok

-----------------------------------------------------------------------------
(* C4 *)

\* where an answer may be opened
MayOpenAnswer ==
    \/ state = "description" /\ question.descr # <<>>
    \/ /\ state = "answer"
       /\ question.current_answer # None
       /\ heap[question.current_answer].text # <<>>
       /\ get_nr_answers(question) < options.maxanswers

\* C4: an answer mark read where an answer may be opened, whose correctness
\* character is neither + nor -, exits with the malformed header error at
\* that line; no answer is added and nothing is written.
C4_MalformedHeaderIsFatal ==
    [][ ( /\ StepReadsLine
          /\ MayOpenAnswer
          /\ is_an_answer(lin')
          /\ ~process_answer_mark(lin').ok )
        => ( /\ pc' = "exit"
             /\ stderr' = ScanErrorAt(fpos', MalformedAnswerHeaderMessage)
             /\ UNCHANGED scanvars
             /\ written' = {} ) ]_vars

\* the malformed header error after a complete answer, below the limit
C4_Witness ==
    /\ pc = "exit"
    /\ stderr.msg = MalformedAnswerHeaderMessage
    /\ state = "answer"
    /\ stderr.line = fpos
    /\ written = {}

-----------------------------------------------------------------------------
(* C5 *)

\* the input ends right after a description mark accepted with a title
EndsAfterDescriptionMark ==
    /\ StepEndsFile
    /\ state = "description"
    /\ is_a_description(lin)
    /\ question.title # <<>>
    /\ question.descr = <<>>

\* C5 as stated: a file that ends right after the description mark fails
\* with an incomplete field error.
C5_EndAfterDescriptionMarkIsIncompleteField ==
    [][ EndsAfterDescriptionMark
        => ( /\ pc' = "exit"
             /\ stderr'.kind = "scan"
             /\ stderr'.msg \in IncompleteFieldMessages ) ]_vars

\* C5, amended: a file that ends right after the description mark fails
\* with the unfinished question at end of file error, which reports the
\* number of lines read; no quiz is added and nothing is written.
C5_EndAfterDescriptionMarkIsUnfinished ==
    [][ EndsAfterDescriptionMark
        => ( /\ pc' = "exit"
             /\ stderr' = ScanErrorAt(fpos, UnfinishedAtEndOfFileMessage)
             /\ quizes' = quizes
             /\ written' = {} ) ]_vars

C5_Witness ==
    /\ pc = "exit"
    /\ state = "description"
    /\ is_a_description(lin)
    /\ question.title # <<>>
    /\ question.descr = <<>>
    /\ stderr.msg = UnfinishedAtEndOfFileMessage

-----------------------------------------------------------------------------
(* C6 *)

\* C6: when the input ends in state "answer" (the title and the description
\* are not empty): if the current answer has text the scan succeeds and the
\* question, with its answers as they are, is the last of the quiz's
\* questions; if it has none the scan exits with the unfinished question at
\* end of file error.
C6_EndOfFileInAnswer ==
    [][ ( /\ StepEndsFile
          /\ state = "answer"
          /\ question.title # <<>>
          /\ question.descr # <<>>
          /\ question.current_answer # None )
        => IF heap[question.current_answer].text # <<>>
           THEN /\ stderr' = NoError
                /\ pc' \in {"process", "postprocess"}
                /\ quizes' =
                     Append(quizes,
                            [filename |-> quiz.filename,
                             questions |-> Append(quiz.questions, question)])
                /\ UNCHANGED <<heap, lists>>
           ELSE /\ pc' = "exit"
                /\ stderr' = ScanErrorAt(fpos, UnfinishedAtEndOfFileMessage)
                /\ quizes' = quizes ]_vars

\* a scanned file whose last question has two answers
C6_Witness ==
    /\ pc = "postprocess"
    /\ stderr = NoError
    /\ Len(quizes) = 1
    /\ LET qs == quizes[1].questions
       IN  /\ qs # <<>>
           /\ get_nr_answers(qs[Len(qs)]) = 2
           /\ qs[Len(qs)] = question

-----------------------------------------------------------------------------
(* C7 *)

\* a mark the state st does not allow
Misplaced(st, l) ==
    \/ st = "question" /\ (is_a_description(l) \/ is_an_answer(l))
    \/ st = "title" /\ (is_a_question(l) \/ is_an_answer(l))
    \/ st = "description" /\ is_a_description(l)
    \/ st = "answer" /\ is_a_description(l)

\* C7: a mark read in a state that does not allow it exits with an error at
\* that line, and the state, the question and the quiz stay as they were.
C7_MisplacedMarkIsFatal ==
    [][ (StepReadsLine /\ Misplaced(state, lin'))
        => ( /\ pc' = "exit"
             /\ stderr'.kind = "scan"
             /\ stderr'.line = fpos'
             /\ stderr'.msg \in StructuralMessages
             /\ UNCHANGED <<scanvars, quizes>> ) ]_vars

C7_Witness ==
    /\ pc = "exit"
    /\ state = "answer"
    /\ is_a_description(lin)
    /\ stderr.msg = "unexpected description mark"
    /\ stderr.line = fpos

-----------------------------------------------------------------------------
(* C8 *)

\* a mark that would close a field that is still empty
ClosesEmptyField(st, l, q) ==
    \/ st = "title" /\ is_a_description(l) /\ q.title = <<>>
    \/ /\ st = "description"
       /\ is_an_answer(l) \/ is_a_question(l)
       /\ q.descr = <<>>
    \/ /\ st = "answer"
       /\ q.current_answer # None
       /\ heap[q.current_answer].text = <<>>
       /\ \/ is_a_question(l)
          \/ is_an_answer(l) /\ get_nr_answers(q) < options.maxanswers

\* C8: a mark that would close an empty field exits with an error at that
\* line, and the state, the question and the quiz stay as they were.
C8_EmptyFieldIsFatal ==
    [][ (StepReadsLine /\ ClosesEmptyField(state, lin', question))
        => ( /\ pc' = "exit"
             /\ stderr'.kind = "scan"
             /\ stderr'.line = fpos'
             /\ stderr'.msg \in IncompleteFieldMessages
             /\ UNCHANGED <<scanvars, quizes>> ) ]_vars

\* an answer mark below the limit, read while the current answer is empty
C8_Witness ==
    /\ pc = "exit"
    /\ state = "answer"
    /\ is_an_answer(lin)
    /\ get_nr_answers(question) < options.maxanswers
    /\ heap[question.current_answer].text = <<>>
    /\ stderr.msg = "unfinished answer"

-----------------------------------------------------------------------------
(* C9 *)

\* C9: the step that raises an error leaves the run stopped with nothing
\* postprocessed and nothing written; after an error no step is taken (no
\* line read, no file scanned, no postprocessing, no output); and output is
\* written only when every input file was scanned and no error was raised.
C9_ErrorsStopTheRun ==
    [][ /\ (stderr = NoError /\ stderr' # NoError)
            => (pc' = "exit" /\ written' = {} /\ log' = <<>>)
        /\ stderr # NoError => UNCHANGED vars
        /\ written' # {}
            => ( /\ stderr' = NoError
                 /\ Len(quizes) = Len(options.files)
                 /\ filenr' = Len(options.files) + 1 ) ]_vars

\* a scan error in the first of two files
C9_Witness ==
    /\ pc = "exit"
    /\ stderr.kind = "scan"
    /\ Len(options.files) = 2
    /\ filenr = 1
    /\ quizes = <<>>
    /\ written = {}

-----------------------------------------------------------------------------
(* C10 *)

\* C10: a scan error reports the number of lines the file has delivered:
\* the position of the mark it is raised on, or at the end of the file the
\* number of lines read; apart from the end of file error, every scan error
\* is raised on a mark.
C10_ErrorLineIsPhysicalLine ==
    stderr.kind = "scan"
        => /\ stderr.line = fpos
           /\ stderr.file = quiz.filename
           /\ stderr.msg # UnfinishedAtEndOfFileMessage => is_a_mark(lin)

\* an error on a mark at line 3, after two lines skipped before any question
C10_Witness ==
    /\ stderr.kind = "scan"
    /\ state = "question"
    /\ is_a_description(lin)
    /\ stderr.line = 3

-----------------------------------------------------------------------------
(* C11 *)

\* the position of the last character of l that is not whitespace
LastNonWhitespace(l) ==
    CHOOSE i \in 1..Len(l) :
        /\ l[i] \notin Whitespace
        /\ \A j \in (i + 1)..Len(l) : l[j] \in Whitespace

\* the flags of mark l as C11 states them
FlagsAsStated(l) ==
    LET last == LastNonWhitespace(l)
        final == l[last] = "f"
        char == IF final THEN l[last - 1] ELSE l[last]
    IN  [malformed |-> char \notin {"+", "-"}, correct |-> char = "+",
         final |-> final]

\* C11: an answer mark read where an answer may be opened is decoded by its
\* last character that is not whitespace: with 'f' the answer is final and
\* the correctness character is the one before it, otherwise the answer is
\* not final and that character is the correctness character; '+' opens a
\* correct answer and '-' an incorrect one, with that final flag, and any
\* other character is the malformed header error.
C11_MarkDecoding ==
    [][ ( /\ StepReadsLine
          /\ MayOpenAnswer
          /\ is_an_answer(lin') )
        => IF FlagsAsStated(lin').malformed
           THEN /\ pc' = "exit"
                /\ stderr'.msg = MalformedAnswerHeaderMessage
                /\ heap' = heap
           ELSE /\ pc' = "scan"
                /\ heap' = Append(heap, Answer(FlagsAsStated(lin').correct,
                                               FlagsAsStated(lin').final))
                /\ question'.current_answer = Len(heap') ]_vars

\* a correct final answer is opened by a mark that ends in "+f"
C11_Witness ==
    /\ pc = "scan"
    /\ lin = MarkPrefix(_ANSWER_MARK) \o <<"+", "f", "\n">>
    /\ heap # <<>>
    /\ heap[Len(heap)].is_correct
    /\ heap[Len(heap)].is_final

-----------------------------------------------------------------------------
(* C12 *)

DigitOf(c) == CHOOSE d \in 0..9 : Digits[d + 1] = c

RECURSIVE NaturalOf(_)
\* the number a text of digits denotes
NaturalOf(s) ==
    IF s = <<>> THEN 0
    ELSE 10 * NaturalOf(SubSeq(s, 1, Len(s) - 1)) + DigitOf(s[Len(s)])

RECURSIVE Pow10(_)
Pow10(n) == IF n = 0 THEN 1 ELSE 10 * Pow10(n - 1)

\* the number a decimal text of at most five decimals denotes, in units of
\* 0.00001
Value(s) ==
    LET negative == s # <<>> /\ s[1] = "-"
        body == IF negative THEN Tail(s) ELSE s
        dots == { i \in 1..Len(body) : body[i] = "." }
        dot == IF dots = {} THEN Len(body) + 1 ELSE CHOOSE i \in dots : TRUE
        whole == SubSeq(body, 1, dot - 1)
        decimals == SubSeq(body, dot + 1, Len(body))
        units == NaturalOf(whole) * Pow10(5)
                 + NaturalOf(decimals) * Pow10(5 - Len(decimals))
    IN  IF negative THEN -units ELSE units

RECURSIVE Sum(_)
Sum(s) == IF s = <<>> THEN 0 ELSE Head(s) + Sum(Tail(s))

Distance(a, b) == IF a < b THEN b - a ELSE a - b

\* the question rendered: its answers and their weights
XmlAnswers == xquestion.answers
XmlWeights == xml[1]

\* the number of answers of the class of a correct, or an incorrect, answer
ClassSize(is_correct) ==
    Cardinality({ i \in 1..Len(XmlAnswers) :
                    XmlAnswers[i].is_correct = is_correct })

\* the sum of the weights of the answers of a class, in units of 0.00001
ClassSum(is_correct) ==
    Sum([i \in 1..Len(XmlAnswers) |->
            IF XmlAnswers[i].is_correct = is_correct
            THEN Value(XmlWeights[i]) ELSE 0])

\* C12: in a rendered question of quiz2moodlexml.py, an answer whose class
\* has 1 to 10 answers gets the table string of its class size (of minus the
\* size for an incorrect answer); the weights of such a class sum to 100
\* (to -100) within 0.001; and the answers (-, final), (+), (-) get the
\* weights -50, 100, -50 in that order.
C12_TableWeights ==
    xml # <<>> =>
        /\ Len(XmlWeights) = Len(XmlAnswers)
        /\ \A correct \in BOOLEAN :
             LET size == ClassSize(correct)
             IN  size \in 1..10 =>
                   /\ \A i \in 1..Len(XmlAnswers) :
                        XmlAnswers[i].is_correct = correct
                        => XmlWeights[i] =
                             _MAP_GIFT_WEIGHTS[IF correct THEN size ELSE -size]
                   /\ Distance(ClassSum(correct),
                               IF correct THEN 100 * Pow10(5)
                               ELSE -100 * Pow10(5)) <= 100
        /\ XmlAnswers = << [is_correct |-> FALSE, is_final |-> TRUE],
                           [is_correct |-> TRUE, is_final |-> FALSE],
                           [is_correct |-> FALSE, is_final |-> FALSE] >>
           => XmlWeights = << <<"-", "5", "0">>, <<"1", "0", "0">>,
                              <<"-", "5", "0">> >>

\* a rendered question with three correct and seven incorrect answers
C12_Witness ==
    /\ xml # <<>>
    /\ ClassSize(TRUE) = 3
    /\ ClassSize(FALSE) = 7

-----------------------------------------------------------------------------
(* C13 *)

\* C13 as stated: in a rendered question of quiz2moodlexml.py, an answer
\* whose class has more than 10 answers gets 100.0/size (negated for an
\* incorrect answer) formatted to three decimals, and the weights of the
\* class sum to 100 (to -100) within the rounding of three decimals.
C13_LargeClassWeights ==
    xml # <<>> =>
        \A i \in 1..Len(XmlAnswers) :
           LET correct == XmlAnswers[i].is_correct
               size == ClassSize(correct)
               hundred == IF correct THEN 100 ELSE -100
           IN  size > 10 =>
                 /\ XmlWeights[i] = format_3f(hundred, size)
                 /\ Distance(ClassSum(correct), hundred * Pow10(5))
                      <= 50 * size

-----------------------------------------------------------------------------
(* C14 *)

\* the run is past postprocessing
Postprocessed == pc \in {"export", "done"}

\* the answers of question q: the regular ones, then the final ones
AllAnswers(q) ==
    [i \in 1..Len(lists[q.answers]) + Len(lists[q.final_answers]) |->
        IF i <= Len(lists[q.answers]) THEN heap[lists[q.answers][i]]
        ELSE heap[lists[q.final_answers][i - Len(lists[q.answers])]]]

NrOfClass(q, is_correct) ==
    Cardinality({ i \in 1..Len(AllAnswers(q)) :
                    AllAnswers(q)[i].is_correct = is_correct })

\* the sum of the weights of a class of answers of q, times d, where d is
\* a multiple of every denominator
WeightSumTimes(q, is_correct, d) ==
    Sum([i \in 1..Len(AllAnswers(q)) |->
            IF AllAnswers(q)[i].is_correct = is_correct
            THEN AllAnswers(q)[i].weight[1]
                 * (d \div AllAnswers(q)[i].weight[2])
            ELSE 0])

\* C14: past postprocessing, in every question with Nc correct and Ni
\* incorrect answers, regular and final together, a correct answer weighs
\* 1/Nc and an incorrect one -1/Ni; the correct weights sum to 1 and the
\* incorrect ones to -1, and the sum of an empty class is 0.
C14_LinearWeights ==
    Postprocessed =>
        \A q \in KnownQuestions :
           LET nc == NrOfClass(q, TRUE)
               ni == NrOfClass(q, FALSE)
               d == (IF nc > 0 THEN nc ELSE 1) * (IF ni > 0 THEN ni ELSE 1)
           IN  /\ \A i \in 1..Len(AllAnswers(q)) :
                    AllAnswers(q)[i].weight =
                        IF AllAnswers(q)[i].is_correct THEN <<1, nc>>
                        ELSE <<-1, ni>>
               /\ WeightSumTimes(q, TRUE, d) = IF nc > 0 THEN d ELSE 0
               /\ WeightSumTimes(q, FALSE, d) = IF ni > 0 THEN -d ELSE 0

\* a postprocessed question with an incorrect regular answer and an
\* incorrect final answer kept apart, each weighing -1/2
C14_Witness ==
    /\ Postprocessed
    /\ \E q \in KnownQuestions :
         /\ NrOfClass(q, TRUE) = 0
         /\ Len(lists[q.answers]) = 1
         /\ Len(lists[q.final_answers]) = 1
         /\ heap[lists[q.final_answers][1]].weight = <<-1, 2>>

-----------------------------------------------------------------------------
(* C15 *)

\* the step that postprocesses the quizes
StepPostprocesses == pc = "postprocess" /\ pc' = "export"

\* the questions of the quizes scanned
ScannedQuestions ==
    UNION { { quizes[k].questions[i] : i \in 1..Len(quizes[k].questions) } :
            k \in 1..Len(quizes) }

\* Answers are numbered as they are scanned: the order of their identities
\* is their order in the source file.
InSourceOrder(ids) == \A i, j \in 1..Len(ids) : i < j => ids[i] < ids[j]

\* C15: with the shuffle of answers and the placement of final answers at
\* the end, postprocessing leaves every question rendering a permutation of
\* the answers scanned for it, with every answer marked final after every
\* regular answer and the final answers in source order.
C15_FinalAnswersLast ==
    [][ ( /\ StepPostprocesses
          /\ options.shuffleanswers
          /\ options.placefinals )
        => \A q \in ScannedQuestions :
             LET scanned == AnswerIds(q)
                 rendered == [i \in 1..Len(_rst_compose_answers(q)') |->
                                 _rst_compose_answers(q)'[i].answer]
                 finals == { i \in 1..Len(rendered) :
                               heap[rendered[i]].is_final }
             IN  /\ Len(rendered) = Len(scanned)
                 /\ \A id \in 1..Len(heap) :
                      Cardinality({ i \in 1..Len(rendered) : rendered[i] = id })
                        = Cardinality({ i \in 1..Len(scanned) :
                                          scanned[i] = id })
                 /\ \A i \in finals, j \in 1..Len(rendered) \ finals : j < i
                 /\ \A i, j \in finals : i < j => rendered[i] < rendered[j] ]_vars

\* answers were shuffled: a question renders a later regular answer before
\* an earlier one, and a final answer, scanned first, last
C15_Witness ==
    /\ Postprocessed
    /\ options.shuffleanswers
    /\ options.placefinals
    /\ \E q \in ScannedQuestions :
         /\ Len(lists[q.answers]) = 2
         /\ lists[q.answers][1] > lists[q.answers][2]
         /\ Len(lists[q.final_answers]) = 1
         /\ lists[q.final_answers][1] < lists[q.answers][2]

-----------------------------------------------------------------------------
(* C16 *)

\* C16 as stated: with --noShuffle, no other shuffle option and the default
\* placement of final answers, every question renders its answers in source
\* order, the final ones included, and the questions are in source order.
C16_NoShuffleKeepsSourceOrder ==
    ( /\ Postprocessed
      /\ options.noshuffle
      /\ options.placefinals )
    => \A k \in 1..Len(quizes) :
         /\ \A i \in 1..Len(quizes[k].questions) :
              InSourceOrder([n \in 1..Len(AnswerIds(quizes[k].questions[i])) |->
                  _rst_compose_answers(quizes[k].questions[i])[n].answer])
         /\ InSourceOrder([i \in 1..Len(quizes[k].questions) |->
                             quizes[k].questions[i].answers])

-----------------------------------------------------------------------------
(* C17 *)

\* A Question object is known by its list of regular answers, which reset
\* creates and clone shares with no other live question.
Identities(qs) == [i \in 1..Len(qs) |-> qs[i].answers]

\* how many times x occurs in sequence s
Occurrences(s, x) == Cardinality({ i \in 1..Len(s) : s[i] = x })

IsPermutationOf(s, t) ==
    /\ Len(s) = Len(t)
    /\ \A i \in 1..Len(t) : Occurrences(s, t[i]) = Occurrences(t, t[i])

\* C17: without the shuffle of files, postprocessing leaves as many quizes,
\* each with a permutation of the questions it had: none lost, duplicated or
\* moved to another quiz; and without the shuffle of questions each quiz
\* has its questions in the order it had them, the source order.
C17_QuestionShufflePermutes ==
    [][ ( /\ StepPostprocesses
          /\ ~options.shufflefiles )
        => /\ Len(quizes') = Len(quizes)
           /\ \A k \in 1..Len(quizes) :
                /\ IsPermutationOf(Identities(quizes'[k].questions),
                                   Identities(quizes[k].questions))
                /\ ~options.shufflequestions
                   => /\ Identities(quizes'[k].questions)
                           = Identities(quizes[k].questions)
                      /\ InSourceOrder(Identities(quizes'[k].questions)) ]_vars

\* the questions of the first quiz were shuffled: its second question comes
\* first, and the second quiz still has its one question
C17_Witness ==
    /\ Postprocessed
    /\ options.shufflequestions
    /\ ~options.shufflefiles
    /\ Len(quizes) = 2
    /\ Len(quizes[1].questions) = 2
    /\ quizes[1].questions[1].answers > quizes[1].questions[2].answers
    /\ Len(quizes[2].questions) = 1

-----------------------------------------------------------------------------
(* C18 *)

RECURSIVE Concatenation(_)
\* the questions of a sequence of quizes, one after the other
Concatenation(qz) ==
    IF qz = <<>> THEN <<>>
    ELSE Identities(Head(qz).questions) \o Concatenation(Tail(qz))

\* C18: with the shuffle of files, postprocessing leaves one quiz, whose
\* questions are the questions of all the files scanned, each once;
\* without it, it leaves one quiz for each input file, in input order, each
\* with the questions of its own file.
C18_FileShufflePools ==
    [][ StepPostprocesses
        => IF options.shufflefiles
           THEN /\ Len(quizes') = 1
                /\ IsPermutationOf(Identities(quizes'[1].questions),
                                   Concatenation(quizes))
                /\ \A id \in 1..Len(lists) :
                     Occurrences(Identities(quizes'[1].questions), id) <= 1
           ELSE /\ Len(quizes') = Len(options.files)
                /\ \A k \in 1..Len(quizes') :
                     /\ quizes'[k].filename = options.files[k]
                     /\ IsPermutationOf(Identities(quizes'[k].questions),
                                        Identities(quizes[k].questions)) ]_vars

\* the questions of two files were pooled and mixed: the one quiz starts
\* with the question of the second file, before the two of the first
C18_Witness ==
    /\ Postprocessed
    /\ options.shufflefiles
    /\ Len(quizes) = 1
    /\ Len(quizes[1].questions) = 3
    /\ quizes[1].questions[1].answers > quizes[1].questions[2].answers
    /\ quizes[1].questions[1].answers > quizes[1].questions[3].answers

-----------------------------------------------------------------------------
(* C19 *)

\* get_options has returned: the options were accepted and expanded
Accepted ==
    \/ pc \in {"process", "scan", "postprocess", "export", "done"}
    \/ pc = "exit" /\ stderr.kind # "option"

\* C19: in every accepted configuration, after expansion, shuffleall implies
\* shuffleanswers, shufflequestions and shufflefiles, and shufflefiles
\* implies shufflequestions; so a run whose quizes were pooled shuffles
\* questions.
C19_ShuffleCascade ==
    Accepted =>
        /\ options.shuffleall
           => ( /\ options.shuffleanswers
                /\ options.shufflequestions
                /\ options.shufflefiles )
        /\ options.shufflefiles => options.shufflequestions
        /\ ( /\ Postprocessed
             /\ Len(quizes) = 1
             /\ quizes[1].filename = "allfiles" )
           => options.shufflequestions

\* a run that pooled its quizes without --shuffleAll
C19_Witness ==
    /\ Postprocessed
    /\ Len(quizes) = 1
    /\ quizes[1].filename = "allfiles"
    /\ ~options.shuffleall
    /\ options.shufflefiles
    /\ options.shufflequestions

-----------------------------------------------------------------------------
(* C20 *)

\* --noShuffle is combined with a shuffle option
Conflicting(o) ==
    /\ o.noshuffle
    /\ \/ o.shuffleall
       \/ o.shufflequestions
       \/ o.shuffleanswers
       \/ o.shufflefiles

\* C20: a configuration that combines --noShuffle with a shuffle option is
\* rejected with an option error and exit status 1, with no file scanned
\* and nothing written; and wherever a run scans or is past scanning,
\* noshuffle implies that every shuffle flag is off.
C20_NoShuffleConflictRejected ==
    [][ /\ ( pc = "options" /\ Conflicting(options) )
           => ( /\ pc' = "exit"
                /\ stderr'.kind = "option"
                /\ exitcode' = 1
                /\ fpos' = 0
                /\ quizes' = <<>>
                /\ written' = {} )
        /\ ( /\ pc' \in {"process", "scan", "postprocess", "export", "done"}
             /\ options'.noshuffle )
           => ~( \/ options'.shuffleall
                 \/ options'.shufflequestions
                 \/ options'.shuffleanswers
                 \/ options'.shufflefiles ) ]_vars

\* --noShuffle with the shuffle of files was rejected
C20_Witness ==
    /\ pc = "exit"
    /\ stderr.kind = "option"
    /\ stderr.msg = "Incompatible options"
    /\ options.outputfile
    /\ options.noshuffle
    /\ options.shufflefiles
    /\ ~options.shuffleall
    /\ fpos = 0
    /\ written = {}


-----------------------------------------------------------------------------
\* the questions of the output files, in the order they are rendered
Rendered == all_questions(quizes)

\* the answers of question q, regular then final
RegularThenFinal(q) == lists[q.answers] \o lists[q.final_answers]

\* C21: in the evaluation file the row of headers and the row of weights
\* have the same number of columns; with --fixAvalAnswerNr every question
\* takes exactly maxanswers columns, its answers first with their weights,
\* then placeholders of weight zero, and the column number i of a question is
\* labelled with the i-th letter.
C21_EvalColumns ==
    pc = "done" =>
        LET h == output.eval.headers
            w == output.eval.weights
            M == options.maxanswers
        IN  /\ Len(h) = Len(w)
            /\ options.fixavalanswernr =>
                /\ Len(h) = M * Len(Rendered)
                /\ \A k \in 1..Len(Rendered) : \A i \in 1..M :
                    LET c == M * (k - 1) + i
                        ids == RegularThenFinal(Rendered[k])
                    IN  /\ w[c] = IF i <= Len(ids) THEN heap[ids[i]].weight
                                  ELSE <<0, 1>>
                        /\ h[c][Len(h[c]) - 1] = Alphabet[i]

\* a run with --fixAvalAnswerNr has written a question of one answer, which
\* is padded with more than one placeholder, and a question of more answers
C21_Witness ==
    /\ pc = "done"
    /\ options.fixavalanswernr
    /\ \E k \in 1..Len(Rendered) :
        /\ Len(RegularThenFinal(Rendered[k])) = 1
        /\ options.maxanswers > 2
    /\ \E k \in 1..Len(Rendered) : Len(RegularThenFinal(Rendered[k])) > 1

-----------------------------------------------------------------------------
\* the number of columns question q takes in the evaluation file
Columns(q) ==
    IF options.fixavalanswernr THEN options.maxanswers
    ELSE Len(RegularThenFinal(q))

RECURSIVE ColumnsBefore(_)
\* the number of columns of the evaluation file before those of the k-th
\* question
ColumnsBefore(k) ==
    IF k = 1 THEN 0 ELSE ColumnsBefore(k - 1) + Columns(Rendered[k - 1])

\* the number of the k-th question of the output files, as text
NumberOf(k) == str(options.startnr + k - 1)

\* C22: in the exam, the revision and the evaluation file the k-th question
\* over all quizes has the number startnr + k - 1, and the i-th answer of a
\* question, regular answers first and final answers last, has the i-th
\* letter, in the three files alike.
C22_NumbersAndLetters ==
    pc = "done" =>
        /\ Len(output.exam) = Len(Rendered)
        /\ Len(output.revision) = Len(Rendered)
        /\ Len(output.eval.headers) = ColumnsBefore(Len(Rendered) + 1)
        /\ \A k \in 1..Len(Rendered) :
            LET ids == RegularThenFinal(Rendered[k])
                title == <<_QUESTION_MARK, " ">> \o NumberOf(k) \o <<":", " ">>
                            \o Rendered[k].title
            IN  /\ output.exam[k].title = title
                /\ output.revision[k].title = title
                /\ Len(output.exam[k].answers) = Len(ids)
                /\ Len(output.revision[k].answers) = Len(ids)
                /\ \A i \in 1..Len(ids) :
                    /\ output.exam[k].answers[i].rst_answer_id = Alphabet[i]
                    /\ output.exam[k].answers[i].text = heap[ids[i]].text
                    /\ output.revision[k].answers[i].rst_answer_id
                            = Alphabet[i]
                    /\ output.revision[k].answers[i].text = heap[ids[i]].text
                /\ \A i \in 1..Columns(Rendered[k]) :
                    output.eval.headers[ColumnsBefore(k) + i]
                        = <<"\"">> \o NumberOf(k) \o <<".", Alphabet[i], "\"">>

\* a run numbering from 3 has written a first quiz of two questions and a
\* second quiz, and a question with a regular and a final answer
C22_Witness ==
    /\ pc = "done"
    /\ options.startnr = 3
    /\ Len(quizes) = 2
    /\ Len(quizes[1].questions) = 2
    /\ Len(quizes[2].questions) > 0
    /\ \E k \in 1..Len(Rendered) :
        /\ lists[Rendered[k].answers] # <<>>
        /\ lists[Rendered[k].final_answers] # <<>>

-----------------------------------------------------------------------------
\* a step that reads a question mark in state "description" with a
\* description, or in state "answer" with a complete current answer
StepCommits ==
    /\ StepReadsLine
    /\ is_a_question(lin')
    /\ \/ state = "description" /\ question.descr # <<>>
       \/ /\ state = "answer"
          /\ question.current_answer # None
          /\ heap[question.current_answer].text # <<>>

\* C24: such a step appends exactly one question to the quiz, with the
\* title, the description and the answers regular and final of the question
\* in progress; the question in progress is left with no title, description,
\* answers or current answer, the state is "title", and the questions
\* appended before and all answers are as they were.
C24_CommitAppendsOneQuestion ==
    [][ StepCommits =>
            LET n == Len(quiz.questions)
                last == quiz'.questions[n + 1]
            IN  /\ pc' = "scan"
                /\ stderr' = NoError
                /\ Len(quiz'.questions) = n + 1
                /\ last.title = question.title
                /\ last.descr = question.descr
                /\ lists'[last.answers] = lists[question.answers]
                /\ lists'[last.final_answers] = lists[question.final_answers]
                /\ \A i \in 1..n :
                    /\ quiz'.questions[i] = quiz.questions[i]
                    /\ lists'[quiz.questions[i].answers]
                            = lists[quiz.questions[i].answers]
                    /\ lists'[quiz.questions[i].final_answers]
                            = lists[quiz.questions[i].final_answers]
                /\ heap' = heap
                /\ question'.title = <<>>
                /\ question'.descr = <<>>
                /\ lists'[question'.answers] = <<>>
                /\ lists'[question'.final_answers] = <<>>
                /\ question'.current_answer = None
                /\ state' = "title" ]_vars

\* a question mark was read in state "description" and then another one in
\* state "answer": the quiz has a question without answers and after it a
\* question with answers, and the question in progress is empty
C24_Witness ==
    /\ pc = "scan"
    /\ state = "title"
    /\ is_a_question(lin)
    /\ Len(quiz.questions) = 2
    /\ AnswerIds(quiz.questions[1]) = <<>>
    /\ AnswerIds(quiz.questions[2]) # <<>>
    /\ question.title = <<>>

-----------------------------------------------------------------------------
\* line l begins with ".. #" or with ".. /"
BeginsComment(l) ==
    /\ Len(l) >= 4
    /\ l[1] = "." /\ l[2] = "." /\ l[3] = " "
    /\ l[4] \in {"#", "/"}

\* C25: in every state of the scanner a step that reads a comment line, and
\* in state "question" a step that reads a line that is no mark, leaves the
\* state, the question in progress, its answers, the quiz and the quizes as
\* they were and raises no error: only the line is counted.
C25_CommentsChangeNothing ==
    [][ ( /\ StepReadsLine
          /\ \/ BeginsComment(lin')
             \/ state = "question" /\ ~is_a_mark(lin') )
        => /\ state' = state
           /\ question' = question
           /\ heap' = heap
           /\ lists' = lists
           /\ quiz' = quiz
           /\ quizes' = quizes
           /\ pc' = "scan"
           /\ stderr' = NoError
           /\ nlin' = nlin + 1 ]_vars

\* a comment line was read between the lines of the text of an answer
C25_Witness ==
    /\ pc = "scan"
    /\ state = "answer"
    /\ BeginsComment(lin)
    /\ lin[4] = "/"
    /\ question.current_answer # None
    /\ heap[question.current_answer].text # <<>>

-----------------------------------------------------------------------------
\* operation i of the postprocessing is a shuffle of the questions of quiz k
\* that draws from the generator: random.shuffle draws nothing for a list of
\* fewer than two elements
QuestionDraw(i, k) ==
    /\ log[i] = <<"shuffle_questions", k>>
    /\ Len(quizes[k].questions) >= 2

\* operation j of the postprocessing is a shuffle of the answers of a
\* question of quiz k that draws from the generator
AnswerDraw(j, k) ==
    /\ log[j][1] = "shuffle_answers"
    /\ \E n \in 1..Len(quizes[k].questions) :
        quizes[k].questions[n].answers = log[j][2]
    /\ Len(lists[log[j][2]]) >= 2

\* C26 as stated: for every quiz, the shuffles of the answers of its
\* questions draw before the shuffle of its questions does.
C26_AnswersDrawFirst ==
    Postprocessed =>
        \A k \in 1..Len(quizes) : \A i, j \in 1..Len(log) :
            (QuestionDraw(i, k) /\ AnswerDraw(j, k)) => j < i

\* C26 as amended: for every quiz, the shuffle of its questions draws before
\* the shuffles of the answers of its questions do.
C26_QuestionsDrawFirst ==
    Postprocessed =>
        \A k \in 1..Len(quizes) : \A i, j \in 1..Len(log) :
            (QuestionDraw(i, k) /\ AnswerDraw(j, k)) => i < j

\* a quiz of two questions, one of them with two regular answers, was
\* postprocessed with both shuffles
C26_Witness ==
    /\ Postprocessed
    /\ \E k \in 1..Len(quizes) : \E i, j \in 1..Len(log) :
        QuestionDraw(i, k) /\ AnswerDraw(j, k)

-----------------------------------------------------------------------------
\* the operations of the postprocessing that compute the weights of the
\* answers of question q
Weightings(q) ==
    { i \in 1..Len(log) : log[i] = <<"compute_weights", q.answers>> }

\* no operation of the postprocessing is performed before every file is
\* scanned, and nothing is written before the postprocessing
AfterScanBeforeRendering ==
    /\ log # <<>> => (Postprocessed /\ filenr > Len(options.files))
    /\ written # {} => pc = "done"
    /\ pc = "export" => written = {}

\* C27 as stated: the weights of every question are computed exactly once,
\* after the scan of all files, before every shuffle of the run and before
\* anything is written.
C27_WeightingBeforeAnyShuffle ==
    /\ AfterScanBeforeRendering
    /\ Postprocessed =>
        \A k \in 1..Len(Rendered) :
            /\ Cardinality(Weightings(Rendered[k])) = 1
            /\ \A i \in Weightings(Rendered[k]) : \A j \in 1..Len(log) :
                log[j][1] \in {"shuffle_answers", "shuffle_questions"}
                    => i < j

\* C27 as amended: the weights of every question are computed exactly once,
\* after the scan of all files, before the shuffle of the answers of that
\* question and before anything is written.
C27_WeightingBeforeOwnShuffle ==
    /\ AfterScanBeforeRendering
    /\ Postprocessed =>
        \A k \in 1..Len(Rendered) :
            /\ Cardinality(Weightings(Rendered[k])) = 1
            /\ \A i \in Weightings(Rendered[k]) : \A j \in 1..Len(log) :
                log[j] = <<"shuffle_answers", Rendered[k].answers>> => i < j

\* two files were scanned and postprocessed with the shuffle of answers, and
\* a question has two regular answers to shuffle
C27_Witness ==
    /\ Postprocessed
    /\ Len(options.files) = 2
    /\ \E k \in 1..Len(Rendered) : \E j \in 1..Len(log) :
        /\ log[j] = <<"shuffle_answers", Rendered[k].answers>>
        /\ Len(lists[Rendered[k].answers]) >= 2
        /\ Weightings(Rendered[k]) # {}

-----------------------------------------------------------------------------
\* C28: computing the weights of a postprocessed question once more, with
\* its answers shuffled, their texts stripped and their weights stored,
\* gives every answer the weight it has; and two answers alike in
\* correctness, of questions with as many correct and as many incorrect
\* answers, weigh the same whatever their place, text and finality.
C28_WeightingIdempotent ==
    Postprocessed =>
        /\ \A q \in ScannedQuestions : \A i \in 1..Len(AllAnswers(q)) :
            weight_of(q, AllAnswers(q)[i]) = AllAnswers(q)[i].weight
        /\ \A q1, q2 \in ScannedQuestions :
            ( /\ NrOfClass(q1, TRUE) = NrOfClass(q2, TRUE)
              /\ NrOfClass(q1, FALSE) = NrOfClass(q2, FALSE) )
            => \A i \in 1..Len(AllAnswers(q1)) :
               \A j \in 1..Len(AllAnswers(q2)) :
                  AllAnswers(q1)[i].is_correct = AllAnswers(q2)[j].is_correct
                    => AllAnswers(q1)[i].weight = AllAnswers(q2)[j].weight

\* a question whose two regular answers, one correct and one incorrect, were
\* shuffled out of source order is postprocessed, its texts stripped
C28_Witness ==
    /\ Postprocessed
    /\ \E q \in ScannedQuestions :
        /\ Len(lists[q.answers]) = 2
        /\ lists[q.answers][1] > lists[q.answers][2]
        /\ NrOfClass(q, TRUE) = 1
        /\ heap[lists[q.answers][1]].text = <<"b">>

-----------------------------------------------------------------------------
\* the questions appended to a quiz
Committed ==
    { quiz.questions[i] : i \in 1..Len(quiz.questions) } \cup ScannedQuestions

\* C29: in the states "description" and "answer" the question in progress
\* has a title, and in the state "answer" it has a description; every
\* question appended to a quiz has a title, and until it is postprocessed
\* the description it was appended with, which is not empty.
C29_FieldsSetInOrder ==
    /\ state \in {"description", "answer"} => question.title # <<>>
    /\ state = "answer" => question.descr # <<>>
    /\ \A q \in Committed :
        /\ q.title # <<>>
        /\ ~Postprocessed => q.descr # <<>>

\* the scanner is in the state "answer" of the second question of a file
C29_Witness ==
    /\ pc = "scan"
    /\ state = "answer"
    /\ Len(quiz.questions) = 1
    /\ question.descr # <<>>

-----------------------------------------------------------------------------
\* text t has no whitespace at either end
Trimmed(t) == t = <<>> \/ (t[1] \notin Whitespace /\ t[Len(t)] \notin Whitespace)

\* text t has no two whitespace characters in a row, and no whitespace but
\* the space
SingleSpaced(t) ==
    /\ \A i \in 1..Len(t) : t[i] \in Whitespace => t[i] = " "
    /\ \A i \in 1..Len(t) - 1 : ~(t[i] = " " /\ t[i + 1] = " ")

\* C30: a line of text read in state "title" adds to the title a space and
\* the line without the whitespace at its ends, or nothing when nothing is
\* left of the line; postprocessing takes the first space away, so that the
\* title of a question is the trimmed non-empty lines of its title in order,
\* one space between them and no whitespace at the ends.
C30_TitleJoinsTrimmedLines ==
    [][ /\ ( /\ StepReadsLine
             /\ state = "title"
             /\ ~BeginsComment(lin')
             /\ ~is_a_mark(lin') )
           => /\ question'.title =
                    question.title
                        \o (IF strip(lin') = <<>> THEN <<>>
                            ELSE <<" ">> \o strip(lin'))
              /\ Trimmed(strip(lin'))
              /\ state' = "title"
        /\ StepPostprocesses =>
            /\ Len(quizes') = Len(quizes)
            /\ \A k \in 1..Len(quizes) : \A i \in 1..Len(quizes[k].questions) :
                LET before == quizes[k].questions[i].title
                    after == quizes'[k].questions[i].title
                IN  /\ before = <<" ">> \o after
                    /\ after # <<>>
                    /\ Trimmed(after)
                    /\ SingleSpaced(after) ]_vars

\* a question whose title was written on two lines of text, the second with
\* spaces at both ends, is postprocessed
C30_Witness ==
    /\ Postprocessed
    /\ \E q \in ScannedQuestions : q.title = <<"a", " ", "b">>

-----------------------------------------------------------------------------
\* question q, its lists of answers and its answers are after the step what
\* they were before it
Untouched(q) ==
    /\ lists'[q.answers] = lists[q.answers]
    /\ lists'[q.final_answers] = lists[q.final_answers]
    /\ \A i \in 1..Len(RegularThenFinal(q)) :
        heap'[RegularThenFinal(q)[i]] = heap[RegularThenFinal(q)[i]]

\* a step of the scan that keeps every question appended to a quiz
KeepsCommitted ==
    pc \in {"process", "scan"} =>
        /\ \A i \in 1..Len(quiz.questions) :
            /\ StepReadsLine => quiz'.questions[i] = quiz.questions[i]
            /\ quiz.questions[i] \in Committed'
            /\ Untouched(quiz.questions[i])
        /\ \A k \in 1..Len(quizes) :
            /\ quizes'[k] = quizes[k]
            /\ \A i \in 1..Len(quizes[k].questions) :
                Untouched(quizes[k].questions[i])

\* C31: no step of the scan, of the file of a question or of a later file,
\* changes a question appended to a quiz: it stays where it is in its quiz
\* with its title and its description, and its lists of answers and the text
\* and the flags of its answers stay as they are.
C31_CommittedQuestionsKept == [][KeepsCommitted]_vars

\* after a question with an answer was appended to the quiz, the text of an
\* answer of the next question has been read
C31_Witness ==
    /\ pc = "scan"
    /\ state = "answer"
    /\ Len(quiz.questions) = 1
    /\ RegularThenFinal(quiz.questions[1]) # <<>>
    /\ question.current_answer # None
    /\ heap[question.current_answer].text # <<>>

-----------------------------------------------------------------------------
\* C32: past postprocessing every question of every quiz has a description
\* that is not empty and every one of its answers a text that is not empty.
C32_TextsNotEmpty ==
    Postprocessed =>
        \A q \in ScannedQuestions :
            /\ q.descr # <<>>
            /\ \A i \in 1..Len(AllAnswers(q)) : AllAnswers(q)[i].text # <<>>

-----------------------------------------------------------------------------
\* the questions of the file being scanned, in order: those appended to the
\* quiz and, from the first question mark on, the one in progress
Started ==
    IF state = "question" THEN quiz.questions
    ELSE Append(quiz.questions, question)

\* a step of the scan that keeps one question for every question mark read
CountsMarkers ==
    /\ pc = "process" => (Started' = <<>>)
    /\ (StepReadsLine /\ pc' = "scan") =>
        IF is_a_question(lin')
        THEN /\ Len(Started') = Len(Started) + 1
             /\ Identities(SubSeq(Started', 1, Len(Started)))
                    = Identities(Started)
             /\ \A i \in 1..Len(Started) :
                    Started'[Len(Started')].answers # Started[i].answers
             /\ lists'[Started'[Len(Started')].answers] = <<>>
        ELSE Identities(Started') = Identities(Started)
    /\ (StepEndsFile /\ pc' # "exit") =>
        /\ Len(quizes') = Len(quizes) + 1
        /\ quizes'[Len(quizes')].questions = Started
        /\ state # "question"

\* C33: every question mark read without error starts one new question,
\* behind the questions started before, and no other line starts or ends
\* one; a file scanned without error gives a quiz of exactly the questions
\* started, so as many as the file has question marks, in their order.
C33_OneQuestionPerMarker == [][CountsMarkers]_vars

\* a file with two question marks was scanned without error: its quiz has
\* two questions
C33_Witness ==
    /\ pc = "process"
    /\ Len(quizes) = 1
    /\ Len(quizes[1].questions) = 2

-----------------------------------------------------------------------------
\* a step of the scan of a file in which no question mark was read
WithoutMarker ==
    /\ (StepReadsLine /\ pc' = "scan" /\ state' = "question")
        => (state = "question" /\ ~is_a_question(lin'))
    /\ (StepReadsLine /\ state = "question" /\ ~is_a_mark(lin'))
        => (state' = "question" /\ pc' = "scan" /\ quiz' = quiz)
    /\ (StepEndsFile /\ state = "question")
        => /\ pc' = "exit"
           /\ stderr' = ScanErrorAt(fpos, UnfinishedAtEndOfFileMessage)
           /\ exitcode' = 3
           /\ quizes' = quizes
           /\ written' = {}
    /\ \A k \in 1..Len(quizes') : quizes'[k].questions # <<>>

\* C34: the scan stays in the state "question" as long as it reads no
\* question mark, and only then; a file that ends in that state, be it
\* empty or made of comments and lines of text, fails with the end-of-file
\* error at the number of lines read and adds no quiz; no quiz without
\* questions is ever added.
C34_NoMarkerNoQuiz == [][WithoutMarker]_vars

\* a file of a comment and a line of text has failed at its end, line 2
C34_Witness ==
    /\ pc = "exit"
    /\ state = "question"
    /\ stderr.msg = UnfinishedAtEndOfFileMessage
    /\ stderr.line = 2
    /\ ~BeginsComment(lin)

-----------------------------------------------------------------------------
(* C35 *)

\* the questions of quiz2moodlexml.py that exist: those of the quiz, each
\* with the contents of its list, and the question in progress
XmlQuestions ==
    { xml_contents(xquestions[k], xlists) : k \in 1..Len(xquestions) }
        \cup {xquestion}

\* the number of answers of q that are correct, or that are not
XmlCount(q, is_correct) ==
    Cardinality({ i \in 1..Len(q.answers) :
                    q.answers[i].is_correct = is_correct })

\* C35: in quiz2moodlexml.py, in every state of the scan, the two counters
\* of every question of the quiz and of the question in progress are the
\* numbers of correct and of incorrect answers in its list of answers, and
\* the size of the class of every answer in the list is not zero
C35_CountersMatchContents ==
    \A q \in XmlQuestions :
        /\ q.nr_correct_answers = XmlCount(q, TRUE)
        /\ q.nr_incorrect_answers = XmlCount(q, FALSE)
        /\ \A i \in 1..Len(q.answers) :
              _compute_answer_class(q, q.answers[i].is_correct) # 0

\* two questions with answers are in the quiz, the first one with correct
\* and incorrect answers, and the question in progress has an answer
C35_Witness ==
    /\ xml = <<>>
    /\ Len(xquestions) = 2
    /\ xquestions[1].nr_correct_answers = 1
    /\ xquestions[1].nr_incorrect_answers = 1
    /\ xquestions[2].nr_incorrect_answers = 1
    /\ Len(xquestion.answers) = 1
====
